---------------------------- MODULE Spec2Model ----------------------------
(***************************************************************************)
(* Korean politeness analysis of the Talkativ AI service.                  *)
(*                                                                         *)
(* Two analyzers share the rule tables of app/core/constants.py:           *)
(*   - PolitenessService          (sentence-level, "base")                 *)
(*   - EnhancedPolitenessService  (word-level, "enhanced")                 *)
(*                                                                         *)
(* A Python str is a sequence of characters.  A Hangul syllable is one     *)
(* character and is written here by its romanisation ("eo" is U+C5B4),     *)
(* Latin letters, the space and the punctuation marks stand for            *)
(* themselves.  An Optional[T] value is a tuple of length 0 (None) or 1.   *)
(***************************************************************************)
EXTENDS Integers, Sequences, FiniteSets, TLC

VARIABLES
    pc,           \* position of the call: "call" before, then the callee that returned
    text,         \* argument text
    target_role,  \* argument target_role : Optional[str]
    target_age,   \* argument target_age  : Optional[int]
    user_age,     \* argument user_age
    args,         \* Optional: the arguments of a call of an internal function
    result,       \* Optional: the value the call returned
    word_levels,                  \* enhanced_politeness_service._word_levels
    compiled_patterns,            \* enhanced_politeness_service._compiled_patterns
    politeness_compiled_patterns, \* politeness_service._compiled_patterns
    calls,        \* the calls in progress: caller -> frame of locals
    chat_sessions,       \* chat_service._sessions : session id -> ChatSession reference
    session_objects,     \* the ChatSession objects ever created, by reference
    progress_errors,     \* progress_service._errors : user id -> UserErrors.errors
    record_error_calls,  \* history: how often record_error ran per user and error type
    personalized_sent    \* history: per ChatSession, the analysis scores of the messages
                         \*          sent through the personalized endpoint

\* the attributes of the two module-level service instances
service == <<word_levels, compiled_patterns, politeness_compiled_patterns>>

\* the in-memory stores of chat_service and progress_service (and the history)
stores == <<chat_sessions, session_objects, progress_errors, record_error_calls,
           personalized_sent>>

vars == <<pc, text, target_role, target_age, user_age, args, result, service, calls, stores>>

None == <<>>
Some(x) == <<x>>
IsNone(o) == o = <<>>
Get(o) == o[1]

-----------------------------------------------------------------------------
(* Bounds of the explored inputs *)

MaxWords == 3
AgeLo == 20
AgeHi == 28
MaxTokens == 5
MaxCount == 2
MaxErrors == 5
MaxHonorificSteps == 4
MaxErrorTokens == 4
NumCallers == 2
MaxRecordErrors == 3
MaxWeeksActive == 2
MaxSessions == 2
MaxSends == 2

(* Program constants *)

DefaultUserAge == 22
StudentLevel == 0
UnknownRoleLevel == 1
AgeGap == 3
MaxCommonContexts == 5

-----------------------------------------------------------------------------
(* Characters and strings *)

UpperAlpha == <<"A","B","C","D","E","F","G","H","I","J","K","L","M",
                "N","O","P","Q","R","S","T","U","V","W","X","Y","Z">>
LowerAlpha == <<"a","b","c","d","e","f","g","h","i","j","k","l","m",
                "n","o","p","q","r","s","t","u","v","w","x","y","z">>

\* str.lower() on one character: only cased letters change
LowerChar(c) ==
    IF \E i \in DOMAIN UpperAlpha : UpperAlpha[i] = c
    THEN LowerAlpha[CHOOSE i \in DOMAIN UpperAlpha : UpperAlpha[i] = c]
    ELSE c

\* str.lower()
Lower(s) == [i \in DOMAIN s |-> LowerChar(s[i])]

\* s[i:j] of Python, 0-based, for 0 <= i <= j <= len(s)
Slice(s, i, j) == [k \in 1..(j - i) |-> s[i + k]]

\* sub in s
Contains(s, sub) ==
    \E i \in 0..(Len(s) - Len(sub)) : Slice(s, i, i + Len(sub)) = sub

-----------------------------------------------------------------------------
(* Role hierarchy *)

RoleJunior == <<"j","u","n","i","o","r">>
RoleStudent == <<"s","t","u","d","e","n","t">>
RoleFriend == <<"f","r","i","e","n","d">>
RolePeer == <<"p","e","e","r">>
RoleSenior == <<"s","e","n","i","o","r">>
RoleProfessor == <<"p","r","o","f","e","s","s","o","r">>
RoleBoss == <<"b","o","s","s">>

KnownRoles ==
    {RoleJunior, RoleStudent, RoleFriend, RolePeer, RoleSenior, RoleProfessor, RoleBoss}

\* ROLE_LEVELS[role], for role in the table
ROLE_LEVELS(role) ==
    CASE role = RoleJunior -> 0
      [] role = RoleStudent -> 0
      [] role = RoleFriend -> 1
      [] role = RolePeer -> 1
      [] role = RoleSenior -> 2
      [] role = RoleProfessor -> 3
      [] role = RoleBoss -> 3

\* ROLE_LEVELS.get(role, default)
RoleLevelGet(role, default) ==
    IF role \in KnownRoles THEN ROLE_LEVELS(role) ELSE default

LevelOrder(level) ==
    CASE level = "informal" -> 0
      [] level = "polite" -> 1
      [] level = "very_polite" -> 2
      [] OTHER -> 1

-----------------------------------------------------------------------------
(* Relationship policy *)

\* _get_expected_level looking the role up without lower-casing it
ExpectedLevelCaseSensitive(role, age, uage) ==
    IF IsNone(role) \/ Get(role) = <<>> THEN "polite"
    ELSE LET target_level == RoleLevelGet(Get(role), UnknownRoleLevel)
         IN  IF target_level >= 3 THEN "very_polite"
             ELSE IF target_level >= 2 THEN "polite"
             ELSE "informal"

\* _get_expected_level applying the peer default to an absent role
ExpectedLevelAbsentRoleAsPeer(role, age, uage) ==
    LET target_level == IF IsNone(role) \/ Get(role) = <<>> THEN UnknownRoleLevel
                        ELSE RoleLevelGet(Lower(Get(role)), UnknownRoleLevel)
    IN  IF target_level >= 3 THEN "very_polite"
        ELSE IF target_level >= 2 THEN "polite"
        ELSE "informal"

\* EnhancedPolitenessService._get_expected_level
GetExpectedLevel(role, age, uage) ==
    IF IsNone(role) \/ Get(role) = <<>> THEN "polite"
    ELSE LET target_level == RoleLevelGet(Lower(Get(role)), UnknownRoleLevel)
         IN  IF target_level >= 3 THEN "very_polite"
             ELSE IF target_level >= 2 THEN "polite"
             ELSE "informal"

\* PolitenessService._get_recommended_level (target_role is a str here)
GetRecommendedLevel(role, age, uage) ==
    LET target_level == RoleLevelGet(Lower(role), UnknownRoleLevel)
        user_level == RoleLevelGet(RoleStudent, StudentLevel)
        power_distance == target_level - user_level
    IN  IF target_level >= 3 THEN "very_polite"
        ELSE IF power_distance > 0 THEN "polite"
        ELSE IF ~IsNone(age) /\ Get(age) # 0 /\ Get(age) > uage + AgeGap THEN "polite"
        ELSE IF power_distance <= 0 THEN "informal"
        ELSE "polite"

-----------------------------------------------------------------------------
(* Rule tables *)

SentenceEnders == {".", "?", "!"}

\* ENDING_PATTERNS[level]: each pattern is the sequence of character classes
\* that must end the unit, before an optional [.?!] and the end ($)
ENDING_PATTERNS(level) ==
    CASE level = "very_polite" ->
            << <<{"seup"}, {"ni"}, {"da"}>>,
               <<{"seup"}, {"ni"}, {"kka"}>>,
               <<{"sip"}, {"ni"}, {"da"}>>,
               <<{"sip"}, {"si"}, {"oo"}>>,
               <<{"op"}, {"ni"}, {"da"}>> >>
      [] level = "polite" ->
            << <<{"aa", "eo"}, {"yo"}>>,
               <<{"se"}, {"yo"}>>,
               <<{"jyo"}>>,
               <<{"ne"}, {"yo"}>>,
               <<{"gun"}, {"yo"}>>,
               <<{"geo"}, {"deun"}, {"yo"}>> >>
      [] level = "informal" ->
            << <<{"aa", "eo"}>>,
               <<{"ji"}>>,
               <<{"nya"}>>,
               <<{"ni"}>>,
               <<{"ya"}>>,
               <<{"rae"}>> >>

\* the keys of ENDING_PATTERNS in insertion order
PatternLevels == <<"very_polite", "polite", "informal">>

\* HONORIFIC_WORDS, in insertion order: <<word, points>>
HONORIFIC_WORDS ==
    << << <<"deu","ri","da">>, 10 >>,
       << <<"yeo","jjup","da">>, 10 >>,
       << <<"yeo","jjwo">>, 10 >>,
       << <<"mal","sseum">>, 10 >>,
       << <<"boep","da">>, 10 >>,
       << <<"boe","da">>, 10 >>,
       << <<"gye","si","da">>, 10 >>,
       << <<"ju","mu","si","da">>, 10 >>,
       << <<"hok","si">>, 5 >>,
       << <<"sil","rye">>, 5 >>,
       << <<"joe","song">>, 5 >>,
       << <<"gam","sa">>, 5 >> >>

HonorificKeys == {HONORIFIC_WORDS[i][1] : i \in DOMAIN HONORIFIC_WORDS}

\* INFORMAL_TO_POLITE: <<key, value>>
INFORMAL_TO_POLITE ==
    << << <<"hae">>, <<"hae","yo">> >>,
       << <<"ga">>, <<"ga","yo">> >>,
       << <<"wa">>, <<"wa","yo">> >>,
       << <<"bwa">>, <<"bwa","yo">> >>,
       << <<"ja">>, <<"ja","yo">> >>,
       << <<"meok","eo">>, <<"meok","eo","yo">> >>,
       << <<"ma","syeo">>, <<"ma","syeo","yo">> >>,
       << <<"iss","eo">>, <<"iss","eo","yo">> >>,
       << <<"eops","eo">>, <<"eops","eo","yo">> >>,
       << <<"al","aa">>, <<"al","aa","yo">> >>,
       << <<"mol","ra">>, <<"mol","ra","yo">> >>,
       << <<"joh","aa">>, <<"joh","aa","yo">> >>,
       << <<"silh","eo">>, <<"silh","eo","yo">> >>,
       << <<"haess","eo">>, <<"haess","eo","yo">> >>,
       << <<"gass","eo">>, <<"gass","eo","yo">> >>,
       << <<"wass","eo">>, <<"wass","eo","yo">> >>,
       << <<"bwass","eo">>, <<"bwass","eo","yo">> >>,
       << <<"meok","eoss","eo">>, <<"meok","eoss","eo","yo">> >>,
       << <<"ma","syeoss","eo">>, <<"ma","syeoss","eo","yo">> >>,
       << <<"mwo","hae">>, <<"mwo"," ","hae","yo">> >>,
       << <<"eo","di","ga">>, <<"eo","di"," ","ga","yo">> >>,
       << <<"wae">>, <<"wae","yo">> >>,
       << <<"mwo","ya">>, <<"mwo","ye","yo">> >>,
       << <<"nu","gu","ya">>, <<"nu","gu","ye","yo">> >>,
       << <<"hae","jwo">>, <<"hae"," ","ju","se","yo">> >>,
       << <<"ga","jwo">>, <<"ga"," ","ju","se","yo">> >>,
       << <<"wa","jwo">>, <<"wa"," ","ju","se","yo">> >>,
       << <<"do","wa","jwo">>, <<"do","wa","ju","se","yo">> >> >>

\* POLITE_TO_FORMAL: <<key, value>>
POLITE_TO_FORMAL ==
    << << <<"hae","yo">>, <<"hap","ni","da">> >>,
       << <<"ga","yo">>, <<"gap","ni","da">> >>,
       << <<"wa","yo">>, <<"op","ni","da">> >>,
       << <<"bwa","yo">>, <<"bop","ni","da">> >>,
       << <<"meok","eo","yo">>, <<"meok","seup","ni","da">> >>,
       << <<"ma","syeo","yo">>, <<"ma","sip","ni","da">> >>,
       << <<"iss","eo","yo">>, <<"iss","seup","ni","da">> >>,
       << <<"eops","eo","yo">>, <<"eops","seup","ni","da">> >>,
       << <<"al","aa","yo">>, <<"ap","ni","da">> >>,
       << <<"mol","ra","yo">>, <<"mo","reup","ni","da">> >>,
       << <<"joh","aa","yo">>, <<"joh","seup","ni","da">> >>,
       << <<"silh","eo","yo">>, <<"silh","seup","ni","da">> >>,
       << <<"haess","eo","yo">>, <<"haess","seup","ni","da">> >>,
       << <<"gass","eo","yo">>, <<"gass","seup","ni","da">> >>,
       << <<"wass","eo","yo">>, <<"wass","seup","ni","da">> >>,
       << <<"bwass","eo","yo">>, <<"bwass","seup","ni","da">> >>,
       << <<"meok","eoss","eo","yo">>, <<"meok","eoss","seup","ni","da">> >>,
       << <<"ma","syeoss","eo","yo">>, <<"ma","syeoss","seup","ni","da">> >>,
       << <<"mwo"," ","hae","yo">>, <<"mu","eot","eul"," ","ha","sip","ni","kka">> >>,
       << <<"eo","di"," ","ga","yo">>, <<"eo","di"," ","ga","sip","ni","kka">> >>,
       << <<"mwo","ye","yo">>, <<"mu","eot","ip","ni","kka">> >>,
       << <<"iss","eo","yo","?">>, <<"iss","seup","ni","kka","?">> >>,
       << <<"eops","eo","yo","?">>, <<"eops","seup","ni","kka","?">> >>,
       << <<"hae"," ","ju","se","yo">>, <<"hae"," ","ju","sip","si","oo">> >>,
       << <<"ga"," ","ju","se","yo">>, <<"ga"," ","ju","sip","si","oo">> >>,
       << <<"do","wa","ju","se","yo">>, <<"do","wa","ju","sip","si","oo">> >>,
       << <<"al","ryeo","ju","se","yo">>, <<"al","ryeo","ju","sip","si","oo">> >> >>

\* INFORMAL_TO_FORMAL: <<key, value>>
INFORMAL_TO_FORMAL ==
    << << <<"hae">>, <<"hap","ni","da">> >>,
       << <<"ga">>, <<"gap","ni","da">> >>,
       << <<"wa">>, <<"op","ni","da">> >>,
       << <<"meok","eo">>, <<"meok","seup","ni","da">> >>,
       << <<"ma","syeo">>, <<"ma","sip","ni","da">> >>,
       << <<"iss","eo">>, <<"iss","seup","ni","da">> >>,
       << <<"eops","eo">>, <<"eops","seup","ni","da">> >>,
       << <<"al","aa">>, <<"ap","ni","da">> >>,
       << <<"mol","ra">>, <<"mo","reup","ni","da">> >>,
       << <<"haess","eo">>, <<"haess","seup","ni","da">> >>,
       << <<"gass","eo">>, <<"gass","seup","ni","da">> >>,
       << <<"wass","eo">>, <<"wass","seup","ni","da">> >>,
       << <<"mwo","hae">>, <<"mu","eot","eul"," ","ha","sip","ni","kka">> >>,
       << <<"hae","jwo">>, <<"hae"," ","ju","sip","si","oo">> >> >>

\* dict.get(key) on a table of <<key, value>> pairs
DictGet(table, key) ==
    IF \E i \in DOMAIN table : table[i][1] = key
    THEN Some(table[CHOOSE i \in DOMAIN table : table[i][1] = key][2])
    ELSE None

\* ERROR_CATEGORIES[key]["severity"], or the default "medium" of dict.get
ErrorSeverity(error_type) ==
    CASE error_type = "ending_mismatch" -> "high"
      [] error_type = "honorific_missing" -> "high"
      [] error_type = "formality_mixed" -> "medium"
      [] error_type = "word_choice" -> "low"
      [] error_type = "subject_marker" -> "low"
      [] error_type = "tone_inappropriate" -> "medium"
      [] OTHER -> "medium"

\* the markers of EnhancedPolitenessService._build_word_level_map
InformalMarkers ==
    { <<"hae">>, <<"ga">>, <<"wa">>, <<"meok","eo">>, <<"iss","eo">>, <<"eops","eo">>,
      <<"haess","eo">>, <<"mwo","hae">>, <<"hae","jwo">> }
PoliteMarkers ==
    { <<"hae","yo">>, <<"ga","yo">>, <<"wa","yo">>, <<"meok","eo","yo">>,
      <<"iss","eo","yo">>, <<"eops","eo","yo">>, <<"haess","eo","yo">>, <<"ju","se","yo">> }
FormalMarkers ==
    { <<"hap","ni","da">>, <<"gap","ni","da">>, <<"op","ni","da">>,
      <<"iss","seup","ni","da">>, <<"eops","seup","ni","da">>,
      <<"haess","seup","ni","da">>, <<"ju","sip","si","oo">> }

\* self._word_levels as built by _build_word_level_map: a later assignment
\* to the same key overwrites an earlier one
BuildWordLevelMap ==
    [ word \in InformalMarkers \cup PoliteMarkers \cup FormalMarkers \cup HonorificKeys |->
        IF word \in HonorificKeys THEN "honorific"
        ELSE IF word \in FormalMarkers THEN "very_polite"
        ELSE IF word \in PoliteMarkers THEN "polite"
        ELSE "informal" ]

\* self._compiled_patterns as built by _compile_patterns (either service)
CompilePatterns == [level \in {"very_polite", "polite", "informal"} |-> ENDING_PATTERNS(level)]

\* the two service instances as their constructors leave them
Constructed ==
    /\ word_levels = BuildWordLevelMap
    /\ compiled_patterns = CompilePatterns
    /\ politeness_compiled_patterns = CompilePatterns

\* chat_service and progress_service as their constructors leave them
StoresConstructed ==
    /\ chat_sessions = <<>>
    /\ session_objects = <<>>
    /\ progress_errors = <<>>
    /\ record_error_calls = <<>>
    /\ personalized_sent = <<>>

\* self._word_levels[word] under "if word in self._word_levels"
WordLevels(word) ==
    IF word \in DOMAIN word_levels THEN Some(word_levels[word]) ELSE None

-----------------------------------------------------------------------------
(* Lexical scanning *)

\* \s of the regular expressions, and str.strip()'s whitespace
IsSpace(c) == c = " "

Punctuation == {".", "?", "!", ","}

\* \w of the regular expressions (Unicode): letters, Hangul syllables included
IsWordChar(c) == ~IsSpace(c) /\ c \notin Punctuation

\* str.strip()
Strip(s) ==
    IF \A i \in DOMAIN s : IsSpace(s[i]) THEN <<>>
    ELSE LET first == CHOOSE i \in DOMAIN s :
                          ~IsSpace(s[i]) /\ \A k \in 1..(i - 1) : IsSpace(s[k])
             last == CHOOSE i \in DOMAIN s :
                          ~IsSpace(s[i]) /\ \A k \in (i + 1)..Len(s) : IsSpace(s[k])
         IN  Slice(s, first - 1, last)

\* s.find(sub): the search of str.find without its start argument
FindIgnoringStart(s, sub, start) ==
    LET hits == {i \in 0..(Len(s) - Len(sub)) : Slice(s, i, i + Len(sub)) = sub}
    IN  IF hits = {} THEN -1
        ELSE CHOOSE i \in hits : \A k \in hits : i <= k

\* s.find(sub, start): the lowest 0-based index >= start where sub occurs, or -1
Find(s, sub, start) ==
    LET hits == {i \in start..(Len(s) - Len(sub)) : Slice(s, i, i + Len(sub)) = sub}
    IN  IF hits = {} THEN -1
        ELSE CHOOSE i \in hits : \A k \in hits : i <= k

\* a run of word characters cut after its first character
RunEndOneChar(s, i) == i + 1

\* end (exclusive, 0-based) of the maximal run of word characters starting at i
RunEnd(s, i) ==
    CHOOSE j \in (i + 1)..Len(s) :
        /\ \A k \in (i + 1)..j : IsWordChar(s[k])
        /\ (j = Len(s) \/ ~IsWordChar(s[j + 1]))

RECURSIVE TokenizeFrom(_, _)
TokenizeFrom(s, i) ==
    IF i >= Len(s) THEN <<>>
    ELSE IF IsWordChar(s[i + 1])
         THEN <<Slice(s, i, RunEnd(s, i))>> \o TokenizeFrom(s, RunEnd(s, i))
    ELSE IF IsSpace(s[i + 1]) THEN TokenizeFrom(s, i + 1)
    ELSE <<Slice(s, i, i + 1)>> \o TokenizeFrom(s, i + 1)

\* EnhancedPolitenessService._tokenize: re.findall(r'[\w..]+|[^\s\w]', text)
Tokenize(s) == TokenizeFrom(s, 0)

\* end (exclusive, 0-based) of the whitespace run starting at i
SpaceEnd(s, i) ==
    CHOOSE j \in i..Len(s) :
        /\ \A k \in (i + 1)..j : IsSpace(s[k])
        /\ (j = Len(s) \/ ~IsSpace(s[j + 1]))

\* re.split(r'[.?!]\s*', s) from index i, cur being the piece under construction
RECURSIVE SplitFrom(_, _, _)
SplitFrom(s, i, cur) ==
    IF i >= Len(s) THEN <<cur>>
    ELSE IF s[i + 1] \in SentenceEnders
         THEN <<cur>> \o SplitFrom(s, SpaceEnd(s, i + 1), <<>>)
    ELSE SplitFrom(s, i + 1, Append(cur, s[i + 1]))

\* PolitenessService._split_sentences
SplitSentences(s) ==
    LET pieces == SplitFrom(s, 0, <<>>)
        stripped == [i \in DOMAIN pieces |-> Strip(pieces[i])]
    IN  SelectSeq(stripped, LAMBDA p : p # <<>>)

\* pattern.search(unit) for one ending pattern: the classes, an optional
\* [.?!], then the end of the unit
PatternSearch(p, w) ==
    LET n == Len(p)
        m == Len(w)
    IN  \/ /\ m >= n
           /\ \A k \in 1..n : w[m - n + k] \in p[k]
        \/ /\ m >= n + 1
           /\ w[m] \in SentenceEnders
           /\ \A k \in 1..n : w[m - 1 - n + k] \in p[k]

\* some compiled pattern of the level matches
MatchesLevel(patterns, level, w) ==
    \E i \in DOMAIN patterns[level] : PatternSearch(patterns[level][i], w)

\* the first level, in the given order, one of whose patterns matches
FirstMatch(patterns, levels, w) ==
    IF \E i \in DOMAIN levels : MatchesLevel(patterns, levels[i], w)
    THEN Some(levels[CHOOSE i \in DOMAIN levels :
                  /\ MatchesLevel(patterns, levels[i], w)
                  /\ \A k \in 1..(i - 1) : ~MatchesLevel(patterns, levels[k], w)])
    ELSE None

\* PolitenessService._detect_sentence_level (the level of the returned pair)
DetectSentenceLevel(sentence) ==
    LET s == Strip(sentence)
    IN  IF s = <<>> THEN None
        ELSE FirstMatch(politeness_compiled_patterns,
                        <<"very_polite", "polite", "informal">>, s)

\* EnhancedPolitenessService._detect_word_level
DetectWordLevel(word) ==
    IF ~IsNone(WordLevels(word)) THEN Get(WordLevels(word))
    ELSE IF ~IsNone(FirstMatch(compiled_patterns, PatternLevels, word))
         THEN Get(FirstMatch(compiled_patterns, PatternLevels, word))
    ELSE IF \E h \in HonorificKeys : Contains(word, h) THEN "honorific"
    ELSE "neutral"

-----------------------------------------------------------------------------
(* Word-level analysis (EnhancedPolitenessService) *)

MainLevels == {"informal", "polite", "very_polite"}

\* _is_word_correct requiring the exact level instead of "at least"
IsWordCorrectExactLevel(current, expected) ==
    IF current = "neutral" THEN TRUE
    ELSE IF current = "honorific" THEN TRUE
    ELSE LevelOrder(current) = LevelOrder(expected)

\* EnhancedPolitenessService._is_word_correct
IsWordCorrect(current, expected) ==
    IF current = "neutral" THEN TRUE
    ELSE IF current = "honorific" THEN TRUE
    ELSE LevelOrder(current) >= LevelOrder(expected)

\* _get_suggestion looking every informal word up in INFORMAL_TO_POLITE,
\* whatever the expected register is
GetSuggestionPoliteOnly(word, current, expected) ==
    IF current = "informal" THEN DictGet(INFORMAL_TO_POLITE, word)
    ELSE IF current = "polite" /\ expected = "very_polite"
         THEN DictGet(POLITE_TO_FORMAL, word)
    ELSE None

\* EnhancedPolitenessService._get_suggestion
GetSuggestion(word, current, expected) ==
    IF current = "informal" /\ expected = "polite" THEN DictGet(INFORMAL_TO_POLITE, word)
    ELSE IF current = "informal" /\ expected = "very_polite"
         THEN DictGet(INFORMAL_TO_FORMAL, word)
    ELSE IF current = "polite" /\ expected = "very_polite"
         THEN DictGet(POLITE_TO_FORMAL, word)
    ELSE None

\* _get_error_type telling the registers of the mismatching token apart
GetErrorTypeByRegister(current, expected) ==
    IF current = "informal" THEN "ending_mismatch" ELSE "formality_mixed"

\* EnhancedPolitenessService._get_error_type
GetErrorType(current, expected) ==
    IF current \in MainLevels THEN "ending_mismatch" ELSE "tone_inappropriate"

\* the loop of _analyze_words over the remaining tokens
RECURSIVE AnalyzeTokens(_, _, _, _)
AnalyzeTokens(txt, words, position, expected) ==
    IF words = <<>> THEN <<>>
    ELSE LET word_clean == Strip(Head(words))
         IN  IF word_clean = <<>>
             THEN AnalyzeTokens(txt, Tail(words), position, expected)
             ELSE LET start == Find(txt, word_clean, position)
                      end == start + Len(word_clean)
                      current_level == DetectWordLevel(word_clean)
                      is_correct == IsWordCorrect(current_level, expected)
                      flagged == ~is_correct /\ current_level # "neutral"
                  IN  << [ word |-> word_clean,
                           position_start |-> start,
                           position_end |-> end,
                           current_level |-> current_level,
                           expected_level |->
                               IF current_level # "neutral" THEN Some(expected) ELSE None,
                           is_correct |-> is_correct,
                           suggestion |->
                               IF flagged
                               THEN GetSuggestion(word_clean, current_level, expected)
                               ELSE None,
                           error_type |->
                               IF flagged
                               THEN Some(GetErrorType(current_level, expected))
                               ELSE None ] >>
                      \o AnalyzeTokens(txt, Tail(words), end, expected)

\* EnhancedPolitenessService._analyze_words
AnalyzeWords(txt, expected) == AnalyzeTokens(txt, Tokenize(txt), 0, expected)

\* round(count / total, 2) in hundredths; an exact tie goes to the even digit
Round2(count, total) ==
    LET q == (100 * count) \div total
        r == (100 * count) % total
    IN  IF 2 * r > total THEN q + 1
        ELSE IF 2 * r < total THEN q
        ELSE IF q % 2 = 0 THEN q ELSE q + 1

AllLevels == MainLevels \cup {"honorific"}

\* the counts dict of _calculate_level_breakdown after its loop
LevelCounts(analyses) ==
    [l \in AllLevels |->
        Cardinality({i \in DOMAIN analyses : analyses[i].current_level = l})]

\* the ratios _calculate_level_breakdown returns for these counts, in hundredths
BreakdownOfCounts(counts) ==
    LET total == counts["informal"] + counts["polite"] + counts["very_polite"]
                 + counts["honorific"]
    IN  IF total = 0
        THEN [l \in AllLevels |-> 0]
        ELSE [l \in AllLevels |-> Round2(counts[l], total)]

\* EnhancedPolitenessService._calculate_level_breakdown
CalculateLevelBreakdown(analyses) == BreakdownOfCounts(LevelCounts(analyses))

\* EnhancedPolitenessService._get_dominant_level
GetDominantLevel(breakdown) ==
    LET non_zero == {l \in MainLevels : breakdown[l] > 0}
    IN  IF Cardinality(non_zero) > 1 /\ \A l \in non_zero : breakdown[l] > 20
        THEN "mixed"
        ELSE IF breakdown["very_polite"] > 0 THEN "very_polite"
        ELSE IF breakdown["polite"] > 0 THEN "polite"
        ELSE IF breakdown["informal"] > 0 THEN "informal"
        ELSE "polite"

\* EnhancedPolitenessService._generate_corrections
RECURSIVE GenerateCorrections(_, _)
GenerateCorrections(analyses, expected) ==
    IF analyses = <<>> THEN <<>>
    ELSE LET a == Head(analyses)
             rest == GenerateCorrections(Tail(analyses), expected)
         IN  IF ~a.is_correct /\ ~IsNone(a.suggestion) /\ Get(a.suggestion) # <<>>
             THEN << [ original |-> a.word,
                       corrected |-> Get(a.suggestion),
                       reason |-> <<a.current_level, expected>>,
                       position_start |-> a.position_start,
                       position_end |-> a.position_end ] >> \o rest
             ELSE rest

SeverityOrder(severity) ==
    CASE severity = "high" -> 0
      [] severity = "medium" -> 1
      [] severity = "low" -> 2
      [] OTHER -> 1

\* the keys of error_counts in insertion order
RECURSIVE ErrorKeys(_, _)
ErrorKeys(analyses, seen) ==
    IF analyses = <<>> THEN <<>>
    ELSE LET e == Head(analyses).error_type
         IN  IF IsNone(e) \/ Get(e) \in seen
             THEN ErrorKeys(Tail(analyses), seen)
             ELSE <<Get(e)>> \o ErrorKeys(Tail(analyses), seen \cup {Get(e)})

\* the example strings "word -> suggestion or ?" collected for one key
ErrorExamples(analyses, key) ==
    LET hits == SelectSeq(analyses, LAMBDA a : a.error_type = Some(key))
    IN  [i \in DOMAIN hits |->
            <<hits[i].word,
              IF IsNone(hits[i].suggestion) \/ Get(hits[i].suggestion) = <<>>
              THEN <<"?">> ELSE Get(hits[i].suggestion)>>]

\* _categorize_errors counting the examples it keeps instead of all it found
CategorizeErrorsCountingKept(analyses) ==
    LET keys == ErrorKeys(analyses, {})
        errors == [i \in DOMAIN keys |->
                     LET examples == ErrorExamples(analyses, keys[i])
                         kept == SubSeq(examples, 1,
                                        IF Len(examples) < 3 THEN Len(examples) ELSE 3)
                     IN  [ error_type |-> keys[i],
                           severity |-> ErrorSeverity(keys[i]),
                           count |-> Len(kept),
                           examples |-> kept ]]
        rank(k) == SelectSeq(errors, LAMBDA e : SeverityOrder(e.severity) = k)
    IN  rank(0) \o rank(1) \o rank(2)

\* EnhancedPolitenessService._categorize_errors: list.sort is stable
CategorizeErrors(analyses) ==
    LET keys == ErrorKeys(analyses, {})
        errors == [i \in DOMAIN keys |->
                     LET examples == ErrorExamples(analyses, keys[i])
                     IN  [ error_type |-> keys[i],
                           severity |-> ErrorSeverity(keys[i]),
                           count |-> Len(examples),
                           examples |-> SubSeq(examples, 1,
                                           IF Len(examples) < 3 THEN Len(examples) ELSE 3) ]]
        rank(k) == SelectSeq(errors, LAMBDA e : SeverityOrder(e.severity) = k)
    IN  rank(0) \o rank(1) \o rank(2)

Max(a, b) == IF a >= b THEN a ELSE b
Min(a, b) == IF a <= b THEN a ELSE b

\* the sum of _calculate_score with an error penalty that is not capped at 20
ScoreSumUncappedPenalty(dominant, expected, breakdown, error_count) ==
    LET dominant_val == LevelOrder(dominant)
        expected_val == LevelOrder(expected)
        match == IF dominant_val >= expected_val THEN 30
                 ELSE IF dominant_val = expected_val - 1 THEN 10
                 ELSE 0 - 10
        max_ratio == Max(breakdown["informal"],
                         Max(breakdown["polite"], breakdown["very_polite"]))
        consistency == IF max_ratio > 80 THEN 15
                       ELSE IF max_ratio < 50 THEN 0 - 10
                       ELSE 0
        honorific == IF breakdown["honorific"] > 0 THEN 5 ELSE 0
    IN  50 + match + consistency - error_count * 5 + honorific

\* the sum _calculate_score builds in base_score before clamping it
ScoreSum(dominant, expected, breakdown, error_count) ==
    LET dominant_val == LevelOrder(dominant)
        expected_val == LevelOrder(expected)
        match == IF dominant_val >= expected_val THEN 30
                 ELSE IF dominant_val = expected_val - 1 THEN 10
                 ELSE 0 - 10
        max_ratio == Max(breakdown["informal"],
                         Max(breakdown["polite"], breakdown["very_polite"]))
        consistency == IF max_ratio > 80 THEN 15
                       ELSE IF max_ratio < 50 THEN 0 - 10
                       ELSE 0
        penalty == Min(error_count * 5, 20)
        honorific == IF breakdown["honorific"] > 0 THEN 5 ELSE 0
    IN  50 + match + consistency - penalty + honorific

\* EnhancedPolitenessService._calculate_score
CalculateScore(dominant, expected, breakdown, error_count) ==
    Max(0, Min(100, ScoreSum(dominant, expected, breakdown, error_count)))

\* _check_appropriateness without the test for "mixed"
CheckAppropriatenessByRankOnly(actual, expected) ==
    LevelOrder(actual) >= LevelOrder(expected)

\* EnhancedPolitenessService._check_appropriateness
CheckAppropriateness(actual, expected) ==
    IF actual = "mixed" THEN FALSE
    ELSE LevelOrder(actual) >= LevelOrder(expected)

RECURSIVE SumCounts(_)
SumCounts(errors) ==
    IF errors = <<>> THEN 0 ELSE Head(errors).count + SumCounts(Tail(errors))

\* EnhancedPolitenessService.analyze from the level breakdown to the return
EnhancedResult(txt, expected_level, word_analyses) ==
    LET level_breakdown == CalculateLevelBreakdown(word_analyses)
        dominant_level == GetDominantLevel(level_breakdown)
        corrections == GenerateCorrections(word_analyses, expected_level)
        errors == CategorizeErrors(word_analyses)
        score == CalculateScore(dominant_level, expected_level, level_breakdown, Len(errors))
    IN  [ level |-> dominant_level,
          score |-> score,
          is_appropriate |-> CheckAppropriateness(dominant_level, expected_level),
          level_breakdown |-> level_breakdown,
          word_analysis |-> word_analyses,
          corrections |-> corrections,
          errors |-> errors,
          recommended_level |-> Some(expected_level),
          details |-> [ text_length |-> Len(txt),
                        word_count |-> Len(word_analyses),
                        error_count |-> SumCounts(errors) ] ]

\* EnhancedPolitenessService.analyze
EnhancedAnalyze(txt, role, age, uage) ==
    LET expected_level == GetExpectedLevel(role, age, uage)
        word_analyses == AnalyzeWords(txt, expected_level)
    IN  EnhancedResult(txt, expected_level, word_analyses)

-----------------------------------------------------------------------------
(* Sentence-level analysis (PolitenessService) *)

\* PolitenessService._get_dominant_level ending in "informal" instead of
\* the default "polite"
PolitenessGetDominantLevelDefaultInformal(level_counts, honorific_score) ==
    IF honorific_score >= 15 THEN "very_polite"
    ELSE IF level_counts["very_polite"] > 0 THEN "very_polite"
    ELSE IF level_counts["polite"] > level_counts["informal"] THEN "polite"
    ELSE "informal"

\* PolitenessService._get_dominant_level
PolitenessGetDominantLevel(level_counts, honorific_score) ==
    IF honorific_score >= 15 THEN "very_polite"
    ELSE IF level_counts["very_polite"] > 0 THEN "very_polite"
    ELSE IF level_counts["polite"] > level_counts["informal"] THEN "polite"
    ELSE IF level_counts["informal"] > 0 THEN "informal"
    ELSE "polite"

BaseScores(level) ==
    CASE level = "informal" -> 20
      [] level = "polite" -> 60
      [] level = "very_polite" -> 85
      [] OTHER -> 50

\* the sum PolitenessService._calculate_score builds before clamping it
PolitenessScoreSum(level, honorific_score, level_counts) ==
    LET total == level_counts["very_polite"] + level_counts["polite"]
                 + level_counts["informal"]
        \* level_counts[level] / total >= 0.8
        consistent == total > 0 /\ 5 * level_counts[level] >= 4 * total
    IN  BaseScores(level) + Min(honorific_score, 15) + (IF consistent THEN 5 ELSE 0)

\* PolitenessService._calculate_score returning the sum unclamped
PolitenessCalculateScoreNoClamp(level, honorific_score, level_counts) ==
    PolitenessScoreSum(level, honorific_score, level_counts)

\* PolitenessService._calculate_score
PolitenessCalculateScore(level, honorific_score, level_counts) ==
    Min(100, Max(0, PolitenessScoreSum(level, honorific_score, level_counts)))

\* PolitenessService._check_appropriateness
PolitenessCheckAppropriateness(actual, recommended) ==
    LevelOrder(actual) >= LevelOrder(recommended)

\* the honorific words found in the text, in table order
HonorificsFound(txt) ==
    SelectSeq(HONORIFIC_WORDS, LAMBDA h : Contains(txt, h[1]))

RECURSIVE SumPoints(_)
SumPoints(found) ==
    IF found = <<>> THEN 0 ELSE Head(found)[2] + SumPoints(Tail(found))

\* level_counts of PolitenessService.analyze after the loop over the sentences
SentenceLevelCounts(txt) ==
    LET sentences == SplitSentences(txt)
        levels == [i \in DOMAIN sentences |-> DetectSentenceLevel(sentences[i])]
    IN  [l \in MainLevels |-> Cardinality({i \in DOMAIN levels : levels[i] = Some(l)})]

\* PolitenessService.analyze from the honorific words to the return
PolitenessResult(txt, role, age, uage, level_counts) ==
    LET honorific_score == SumPoints(HonorificsFound(txt))
        dominant_level == PolitenessGetDominantLevel(level_counts, honorific_score)
        score == PolitenessCalculateScore(dominant_level, honorific_score, level_counts)
        has_role == ~IsNone(role) /\ Get(role) # <<>>
        recommended == IF has_role
                       THEN Some(GetRecommendedLevel(Get(role), age, uage))
                       ELSE None
    IN  [ level |-> dominant_level,
          score |-> score,
          is_appropriate |->
              IF has_role
              THEN PolitenessCheckAppropriateness(dominant_level, Get(recommended))
              ELSE TRUE,
          recommended_level |-> recommended,
          details |-> [ level_counts |-> level_counts,
                        honorific_score |-> honorific_score ] ]

\* PolitenessService.analyze
PolitenessAnalyze(txt, role, age, uage) ==
    PolitenessResult(txt, role, age, uage, SentenceLevelCounts(txt))

-----------------------------------------------------------------------------
(* Inputs of the analysis calls *)

Bap == <<"bap">>                                  \* a noun, no ending
Meogeosseo == <<"meok","eoss","eo">>              \* informal ending
Isseoyo == <<"iss","eo","yo">>                    \* polite ending
Issseumnida == <<"iss","seup","ni","da">>         \* formal ending
Yeojjupda == <<"yeo","jjup","da">>                \* honorific verb
Deurida == <<"deu","ri","da">>                    \* honorific verb
Mwohae == <<"mwo","hae">>
Annyeonghaseyo == <<"an","nyeong","ha","se","yo">>
Gyosunim == <<"gyo","su","nim">>
Jilmuni == <<"jil","mun","ii">>

\* words followed by a separator, the pieces texts are built from
Vocabulary ==
    << Bap \o <<" ">>,
       Meogeosseo \o <<"?">>,
       Isseoyo \o <<" ">>,
       Issseumnida \o <<".", " ">>,
       Yeojjupda \o <<" ">>,
       Deurida \o <<" ">> >>

RECURSIVE Concat(_)
Concat(pieces) == IF pieces = <<>> THEN <<>> ELSE Head(pieces) \o Concat(Tail(pieces))

Example1Text == Bap \o <<" ">> \o Meogeosseo \o <<"?">>
Example2Text == Gyosunim \o <<" ">> \o Jilmuni \o <<" ">> \o Isseoyo
Example3Text == Annyeonghaseyo \o <<".", " ">> \o Mwohae \o <<"?">>
\* two polite words, only the first of which is a key of POLITE_TO_FORMAL
PoliteGreetingText == Isseoyo \o <<" ">> \o Annyeonghaseyo
\* texts without any word: whitespace only, punctuation only
BlankText == <<" ", " ">>
PunctuationText == <<"?", " ", "!">>
\* one informal word followed by four polite words
MostlyPoliteText ==
    Concat(<<Vocabulary[2], Vocabulary[3], Vocabulary[3], Vocabulary[3], Vocabulary[3]>>)

Texts ==
    {Example2Text, Example3Text, PoliteGreetingText, BlankText, PunctuationText,
     MostlyPoliteText} \cup
    { Concat([i \in DOMAIN f |-> Vocabulary[f[i]]]) :
          f \in UNION {[1..n -> DOMAIN Vocabulary] : n \in 1..MaxWords} }

RoleProfessorCapitalised == <<"P","r","o","f","e","s","s","o","r">>
RoleBossUpper == <<"B","O","S","S">>
RoleSeniorCapitalised == <<"S","e","n","i","o","r">>
RoleAlien == <<"a","l","i","e","n">>

\* target_role of the analysis calls
CallRoles ==
    { None, Some(<<>>), Some(RoleFriend), Some(RoleJunior), Some(RoleSenior),
      Some(RoleProfessorCapitalised), Some(RoleAlien) }

\* target_age of the analysis calls
CallAges == {None, Some(55)}

-----------------------------------------------------------------------------
(* Specification Spec: one analyze call of either service *)

Init ==
    /\ pc = "call"
    /\ text \in Texts
    /\ target_role \in CallRoles
    /\ target_age \in CallAges
    /\ user_age = DefaultUserAge
    /\ args = None
    /\ result = None
    /\ Constructed
    /\ StoresConstructed
    /\ calls = <<>>

\* enhanced_politeness_service.analyze(text, target_role, target_age, user_age)
CallEnhancedAnalyze ==
    /\ pc = "call"
    /\ pc' = "enhanced"
    /\ result' = Some(EnhancedAnalyze(text, target_role, target_age, user_age))
    /\ UNCHANGED <<text, target_role, target_age, user_age, args, service, calls, stores>>

\* politeness_service.analyze(text, target_role, target_age, user_age)
CallPolitenessAnalyze ==
    /\ pc = "call"
    /\ pc' = "base"
    /\ result' = Some(PolitenessAnalyze(text, target_role, target_age, user_age))
    /\ UNCHANGED <<text, target_role, target_age, user_age, args, service, calls, stores>>

Next == CallEnhancedAnalyze \/ CallPolitenessAnalyze

Spec == Init /\ [][Next]_vars

-----------------------------------------------------------------------------
(* Specification SpecPolicy: the relationship policy of either service *)

PolicyRoles ==
    {None, Some(<<>>)} \cup {Some(r) : r \in KnownRoles} \cup
    { Some(RoleProfessorCapitalised), Some(RoleBossUpper), Some(RoleSeniorCapitalised),
      Some(RoleAlien) }

PolicyAges == {None} \cup {Some(a) : a \in AgeLo..AgeHi}

InitPolicy ==
    /\ pc = "call"
    /\ text = <<>>
    /\ target_role \in PolicyRoles
    /\ target_age \in PolicyAges
    /\ user_age \in AgeLo..AgeHi
    /\ args = None
    /\ result = None
    /\ Constructed
    /\ StoresConstructed
    /\ calls = <<>>

\* self._get_expected_level(target_role, target_age, user_age)
CallGetExpectedLevel ==
    /\ pc = "call"
    /\ pc' = "expected"
    /\ result' = Some(GetExpectedLevel(target_role, target_age, user_age))
    /\ UNCHANGED <<text, target_role, target_age, user_age, args, service, calls, stores>>

\* self._get_recommended_level(target_role, target_age, user_age), which
\* PolitenessService.analyze calls under "if target_role:"
CallGetRecommendedLevel ==
    /\ pc = "call"
    /\ ~IsNone(target_role) /\ Get(target_role) # <<>>
    /\ pc' = "recommended"
    /\ result' = Some(GetRecommendedLevel(Get(target_role), target_age, user_age))
    /\ UNCHANGED <<text, target_role, target_age, user_age, args, service, calls, stores>>

NextPolicy == CallGetExpectedLevel \/ CallGetRecommendedLevel

SpecPolicy == InitPolicy /\ [][NextPolicy]_vars

-----------------------------------------------------------------------------
(* Specification SpecLevels: aggregation of token levels (word-level service) *)

TokenLevels == {"informal", "polite", "very_polite", "honorific", "neutral"}

\* lists of word analyses, reduced to the field the aggregation reads
LevelLists ==
    UNION { [1..n -> {[current_level |-> l] : l \in TokenLevels}] : n \in 0..MaxTokens }

InitLevels ==
    /\ pc = "call"
    /\ text = <<>>
    /\ target_role = None
    /\ target_age = None
    /\ user_age = DefaultUserAge
    /\ args \in {Some([analyses |-> a]) : a \in LevelLists}
    /\ result = None
    /\ Constructed
    /\ StoresConstructed
    /\ calls = <<>>

\* level_breakdown = self._calculate_level_breakdown(word_analyses)
CallCalculateLevelBreakdown ==
    /\ pc = "call"
    /\ pc' = "breakdown"
    /\ result' = Some([ level_breakdown |-> CalculateLevelBreakdown(Get(args).analyses),
                        level |-> "" ])
    /\ UNCHANGED <<text, target_role, target_age, user_age, args, service, calls, stores>>

\* dominant_level = self._get_dominant_level(level_breakdown)
CallGetDominantLevel ==
    /\ pc = "breakdown"
    /\ pc' = "dominant"
    /\ result' = Some([ Get(result) EXCEPT
                            !.level = GetDominantLevel(Get(result).level_breakdown) ])
    /\ UNCHANGED <<text, target_role, target_age, user_age, args, service, calls, stores>>

NextLevels == CallCalculateLevelBreakdown \/ CallGetDominantLevel

SpecLevels == InitLevels /\ [][NextLevels]_vars

-----------------------------------------------------------------------------
(* Specification SpecScore: the scorers on arbitrary arguments *)

\* arguments of EnhancedPolitenessService._calculate_score; the breakdown is
\* given by the counts it is computed from
EnhancedScoreArgs ==
    [ fn : {"enhanced"},
      dominant : MainLevels \cup {"mixed"},
      expected : MainLevels,
      counts : [AllLevels -> 0..MaxCount],
      error_count : 0..MaxErrors,
      honorific_score : {0} ]

\* arguments of PolitenessService._calculate_score
PolitenessScoreArgs ==
    [ fn : {"base"},
      dominant : MainLevels,
      expected : {"polite"},
      counts : {c \in [AllLevels -> 0..MaxCount] : c["honorific"] = 0},
      error_count : {0},
      honorific_score : {5 * k : k \in 0..MaxHonorificSteps} ]

InitScore ==
    /\ pc = "call"
    /\ text = <<>>
    /\ target_role = None
    /\ target_age = None
    /\ user_age = DefaultUserAge
    /\ args \in {Some(a) : a \in EnhancedScoreArgs \cup PolitenessScoreArgs}
    /\ result = None
    /\ Constructed
    /\ StoresConstructed
    /\ calls = <<>>

\* self._calculate_score(dominant_level, expected_level, level_breakdown, n)
CallCalculateScore ==
    /\ pc = "call"
    /\ Get(args).fn = "enhanced"
    /\ pc' = "enhanced_score"
    /\ result' = Some(CalculateScore(Get(args).dominant, Get(args).expected,
                                     BreakdownOfCounts(Get(args).counts),
                                     Get(args).error_count))
    /\ UNCHANGED <<text, target_role, target_age, user_age, args, service, calls, stores>>

\* self._calculate_score(dominant_level, honorific_score, level_counts)
CallPolitenessCalculateScore ==
    /\ pc = "call"
    /\ Get(args).fn = "base"
    /\ pc' = "base_score"
    /\ result' = Some(PolitenessCalculateScore(Get(args).dominant,
                                               Get(args).honorific_score,
                                               Get(args).counts))
    /\ UNCHANGED <<text, target_role, target_age, user_age, args, service, calls, stores>>

NextScore == CallCalculateScore \/ CallPolitenessCalculateScore

SpecScore == InitScore /\ [][NextScore]_vars

-----------------------------------------------------------------------------
(* Specification SpecErrors: the categorizer on arbitrary token analyses *)

Hae == <<"hae">>
Haeyo == <<"hae", "yo">>

\* keys of ERROR_CATEGORIES a token analysis may carry in error_type
ErrorTypes == {"ending_mismatch", "honorific_missing", "formality_mixed", "word_choice"}

\* word analyses, reduced to the fields the categorizer reads
ErrorTokens ==
    [ word : {Hae},
      suggestion : {None, Some(Haeyo)},
      error_type : {None} \cup {Some(k) : k \in ErrorTypes} ]

ErrorTokenLists == UNION { [1..n -> ErrorTokens] : n \in 0..MaxErrorTokens }

InitErrors ==
    /\ pc = "call"
    /\ text = <<>>
    /\ target_role = None
    /\ target_age = None
    /\ user_age = DefaultUserAge
    /\ args \in {Some([analyses |-> a]) : a \in ErrorTokenLists}
    /\ result = None
    /\ Constructed
    /\ StoresConstructed
    /\ calls = <<>>

\* errors = self._categorize_errors(word_analyses)
CallCategorizeErrors ==
    /\ pc = "call"
    /\ pc' = "errors"
    /\ result' = Some(CategorizeErrors(Get(args).analyses))
    /\ UNCHANGED <<text, target_role, target_age, user_age, args, service, calls, stores>>

NextErrors == CallCategorizeErrors

SpecErrors == InitErrors /\ [][NextErrors]_vars

-----------------------------------------------------------------------------
(* Specification SpecCalls: analyze calls in progress at the same time on   *)
(* the module-level service instances; a call advances statement by         *)
(* statement and keeps its local variables in its own frame                 *)

Callers == 1..NumCallers

Services == {"enhanced", "base"}
ConcurrentTexts == {Example1Text, PoliteGreetingText}
ConcurrentRoles == {Some(RoleFriend), Some(RoleProfessor)}

\* the frame of a call that has bound its arguments and run no statement
NewFrame(s, txt, role) ==
    [ service |-> s, text |-> txt, target_role |-> role, pc |-> "start",
      expected_level |-> None, units |-> None, result |-> None ]

InitCalls ==
    /\ pc = "calls"
    /\ text = <<>>
    /\ target_role = None
    /\ target_age = None
    /\ user_age = DefaultUserAge
    /\ args = None
    /\ result = None
    /\ Constructed
    /\ StoresConstructed
    /\ calls \in [Callers -> {NewFrame(s, txt, role) : s \in Services,
                                  txt \in ConcurrentTexts, role \in ConcurrentRoles}]

\* expected_level read as an attribute every call assigns, not as a local
SharedExpectedLevel(c) ==
    LET others == {d \in DOMAIN calls : d # c /\ ~IsNone(calls[d].expected_level)}
    IN  IF others = {} THEN Get(calls[c].expected_level)
        ELSE Get(calls[CHOOSE d \in others : TRUE].expected_level)

\* the local variable expected_level of call c
LocalExpectedLevel(c) == Get(calls[c].expected_level)

\* expected_level = self._get_expected_level(target_role, target_age, user_age)
AnalyzeGetExpectedLevel(c) ==
    /\ calls[c].service = "enhanced"
    /\ calls[c].pc = "start"
    /\ calls' = [calls EXCEPT
                    ![c].pc = "expected",
                    ![c].expected_level =
                        Some(GetExpectedLevel(calls[c].target_role, None, DefaultUserAge))]
    /\ UNCHANGED <<pc, text, target_role, target_age, user_age, args, result, service, stores>>

\* word_analyses = self._analyze_words(text, expected_level)
AnalyzeAnalyzeWords(c) ==
    /\ calls[c].service = "enhanced"
    /\ calls[c].pc = "expected"
    /\ calls' = [calls EXCEPT
                    ![c].pc = "words",
                    ![c].units = Some(AnalyzeWords(calls[c].text, LocalExpectedLevel(c)))]
    /\ UNCHANGED <<pc, text, target_role, target_age, user_age, args, result, service, stores>>

\* the rest of EnhancedPolitenessService.analyze, to its return
AnalyzeReturn(c) ==
    /\ calls[c].service = "enhanced"
    /\ calls[c].pc = "words"
    /\ calls' = [calls EXCEPT
                    ![c].pc = "done",
                    ![c].result = Some(EnhancedResult(calls[c].text, LocalExpectedLevel(c),
                                                      Get(calls[c].units)))]
    /\ UNCHANGED <<pc, text, target_role, target_age, user_age, args, result, service, stores>>

\* PolitenessService.analyze: the sentences and the loop counting their levels
PolitenessCountLevels(c) ==
    /\ calls[c].service = "base"
    /\ calls[c].pc = "start"
    /\ calls' = [calls EXCEPT
                    ![c].pc = "levels",
                    ![c].units = Some(SentenceLevelCounts(calls[c].text))]
    /\ UNCHANGED <<pc, text, target_role, target_age, user_age, args, result, service, stores>>

\* the rest of PolitenessService.analyze, to its return
PolitenessReturn(c) ==
    /\ calls[c].service = "base"
    /\ calls[c].pc = "levels"
    /\ calls' = [calls EXCEPT
                    ![c].pc = "done",
                    ![c].result = Some(PolitenessResult(calls[c].text, calls[c].target_role,
                                                        None, DefaultUserAge,
                                                        Get(calls[c].units)))]
    /\ UNCHANGED <<pc, text, target_role, target_age, user_age, args, result, service, stores>>

NextCalls ==
    \E c \in Callers :
        \/ AnalyzeGetExpectedLevel(c)
        \/ AnalyzeAnalyzeWords(c)
        \/ AnalyzeReturn(c)
        \/ PolitenessCountLevels(c)
        \/ PolitenessReturn(c)

SpecCalls == InitCalls /\ [][NextCalls]_vars

-----------------------------------------------------------------------------
(* Specification SpecLexical: tokenization and the classification of one    *)
(* unit (a token or a sentence) by either service                           *)

\* the keys and the values of a conversion table
TableWords(table) ==
    {table[i][1] : i \in DOMAIN table} \cup {table[i][2] : i \in DOMAIN table}

\* units: the marker words of the word-level map and the words and phrases
\* of the conversion tables
Units ==
    InformalMarkers \cup PoliteMarkers \cup FormalMarkers \cup HonorificKeys
        \cup TableWords(INFORMAL_TO_POLITE) \cup TableWords(POLITE_TO_FORMAL)
        \cup TableWords(INFORMAL_TO_FORMAL)

InitLexical ==
    /\ pc = "call"
    /\ text \in Units \cup Texts
    /\ target_role = None
    /\ target_age = None
    /\ user_age = DefaultUserAge
    /\ args = None
    /\ result = None
    /\ Constructed
    /\ StoresConstructed
    /\ calls = <<>>

\* words = self._tokenize(text)
CallTokenize ==
    /\ pc = "call"
    /\ pc' = "tokens"
    /\ result' = Some(Tokenize(text))
    /\ UNCHANGED <<text, target_role, target_age, user_age, args, service, calls, stores>>

\* current_level = self._detect_word_level(word_clean)
CallDetectWordLevel ==
    /\ pc = "call"
    /\ pc' = "word_level"
    /\ result' = Some(DetectWordLevel(text))
    /\ UNCHANGED <<text, target_role, target_age, user_age, args, service, calls, stores>>

\* sentence_level, ending = self._detect_sentence_level(sentence)
CallDetectSentenceLevel ==
    /\ pc = "call"
    /\ pc' = "sentence_level"
    /\ result' = Some(DetectSentenceLevel(text))
    /\ UNCHANGED <<text, target_role, target_age, user_age, args, service, calls, stores>>

NextLexical == CallTokenize \/ CallDetectWordLevel \/ CallDetectSentenceLevel

SpecLexical == InitLexical /\ [][NextLexical]_vars

-----------------------------------------------------------------------------
(* Specification SpecProgress: the error tracking of progress_service *)

UserIds == {"user_a", "user_b"}

\* error types the tracked messages produce
TrackedErrorTypes == {"ending_mismatch", "formality_mixed"}

\* ERROR_CATEGORIES[error_type]["name_ko"], romanised
ErrorNameKo(error_type) ==
    CASE error_type = "ending_mismatch" -> "eomi bulilchi"
      [] error_type = "honorific_missing" -> "nopim pyohyeon nurak"
      [] error_type = "formality_mixed" -> "gyeoksik honyong"
      [] error_type = "word_choice" -> "daneo seontaek"
      [] OTHER -> error_type

\* ERROR_CATEGORIES[error_type]["name_en"]
ErrorNameEn(error_type) ==
    CASE error_type = "ending_mismatch" -> "Ending Mismatch"
      [] error_type = "honorific_missing" -> "Missing Honorific"
      [] error_type = "formality_mixed" -> "Mixed Formality"
      [] error_type = "word_choice" -> "Word Choice"
      [] OTHER -> error_type

\* the context argument of record_error
ErrorContexts == {None, Some("minsu_senior_None")}

\* a dict with key set to value
DictSet(dict, key, value) ==
    [k \in DOMAIN dict \cup {key} |-> IF k = key THEN value ELSE dict[k]]

\* ErrorRecord(error_type=..., name_ko=..., name_en=...) with the field defaults;
\* last_occurrence is None or the time of the call, of which only "now" is kept
ErrorRecord(error_type, name_ko, name_en) ==
    [ error_type |-> error_type, name_ko |-> name_ko, name_en |-> name_en,
      total_count |-> 0, this_week_count |-> 0, this_session_count |-> 0,
      last_occurrence |-> None, is_decreasing |-> FALSE, common_contexts |-> <<>> ]

\* the last n elements of a list: list[-n:]
LastN(list, n) ==
    IF Len(list) <= n THEN list ELSE SubSeq(list, Len(list) - n + 1, Len(list))

\* the counters of record_error, each incremented by one
CountOccurrence(error) ==
    [error EXCEPT !.total_count = @ + 1,
                  !.this_week_count = @ + 1,
                  !.this_session_count = @ + 1,
                  !.last_occurrence = Some("now")]

\* ProgressService.record_error: self._errors after the call
RecordError(all_errors, user_id, error_type, name_ko, name_en, context) ==
    LET errors == IF user_id \in DOMAIN all_errors THEN all_errors[user_id] ELSE <<>>
        with_record == IF error_type \in DOMAIN errors THEN errors
                       ELSE DictSet(errors, error_type,
                                    ErrorRecord(error_type, name_ko, name_en))
        error == CountOccurrence(with_record[error_type])
        seen == {error.common_contexts[i] : i \in DOMAIN error.common_contexts}
        contexts == IF ~IsNone(context) /\ Get(context) # "" /\ Get(context) \notin seen
                    THEN LET appended == Append(error.common_contexts, Get(context))
                         IN  IF Len(appended) > MaxCommonContexts
                             THEN LastN(appended, MaxCommonContexts) ELSE appended
                    ELSE error.common_contexts
    IN  DictSet(all_errors, user_id,
                DictSet(with_record, error_type,
                        [error EXCEPT !.common_contexts = contexts]))

\* ProgressService.reset_session_errors: self._errors after the call
ResetSessionErrors(all_errors, user_id) ==
    IF user_id \notin DOMAIN all_errors THEN all_errors
    ELSE DictSet(all_errors, user_id,
                 [k \in DOMAIN all_errors[user_id] |->
                      [all_errors[user_id][k] EXCEPT !.this_session_count = 0]])

\* ProgressService.reset_weekly_errors: self._errors after the call;
\* weeks_active is what _get_weeks_active returns (at least 1), and
\* this_week_count < total_count / weeks_active is compared without division
ResetWeeklyErrors(all_errors, user_id, weeks_active) ==
    IF user_id \notin DOMAIN all_errors THEN all_errors
    ELSE DictSet(all_errors, user_id,
                 [k \in DOMAIN all_errors[user_id] |->
                      LET error == all_errors[user_id][k]
                      IN  [error EXCEPT
                              !.is_decreasing =
                                  error.this_week_count * Max(1, weeks_active)
                                      < error.total_count,
                              !.this_week_count = 0]])

\* how often record_error ran for a user and an error type
RecordErrorCalls(user_id, error_type) ==
    IF <<user_id, error_type>> \in DOMAIN record_error_calls
    THEN record_error_calls[<<user_id, error_type>>] ELSE 0

\* the history after one more record_error call
NoteRecordError(calls_so_far, user_id, error_type) ==
    DictSet(calls_so_far, <<user_id, error_type>>,
            IF <<user_id, error_type>> \in DOMAIN calls_so_far
            THEN calls_so_far[<<user_id, error_type>>] + 1 ELSE 1)

\* how often record_error ran in all, over the keys still to be added up
RECURSIVE TotalRecordErrorCalls(_, _)
TotalRecordErrorCalls(calls_so_far, keys) ==
    IF keys = {} THEN 0
    ELSE LET key == CHOOSE k \in keys : TRUE
         IN  calls_so_far[key] + TotalRecordErrorCalls(calls_so_far, keys \ {key})

InitProgress ==
    /\ pc = "progress"
    /\ text = <<>>
    /\ target_role = None
    /\ target_age = None
    /\ user_age = DefaultUserAge
    /\ args = None
    /\ result = None
    /\ Constructed
    /\ StoresConstructed
    /\ calls = <<>>

\* progress_service.record_error(user_id, error_type, name_ko, name_en, context)
CallRecordError ==
    \E user_id \in UserIds : \E error_type \in TrackedErrorTypes :
    \E context \in ErrorContexts :
        /\ TotalRecordErrorCalls(record_error_calls, DOMAIN record_error_calls)
               < MaxRecordErrors
        /\ pc' = "record_error"
        /\ progress_errors' = RecordError(progress_errors, user_id, error_type,
                                          ErrorNameKo(error_type),
                                          ErrorNameEn(error_type), context)
        /\ record_error_calls' = NoteRecordError(record_error_calls, user_id, error_type)
        /\ UNCHANGED <<text, target_role, target_age, user_age, args, result, service,
                       calls, chat_sessions, session_objects, personalized_sent>>

\* progress_service.reset_session_errors(user_id)
CallResetSessionErrors ==
    \E user_id \in UserIds :
        /\ pc' = "reset_session_errors"
        /\ progress_errors' = ResetSessionErrors(progress_errors, user_id)
        /\ UNCHANGED <<text, target_role, target_age, user_age, args, result, service,
                       calls, chat_sessions, session_objects, record_error_calls,
                       personalized_sent>>

\* progress_service.reset_weekly_errors(user_id)
CallResetWeeklyErrors ==
    \E user_id \in UserIds : \E weeks_active \in 1..MaxWeeksActive :
        /\ pc' = "reset_weekly_errors"
        /\ progress_errors' = ResetWeeklyErrors(progress_errors, user_id, weeks_active)
        /\ UNCHANGED <<text, target_role, target_age, user_age, args, result, service,
                       calls, chat_sessions, session_objects, record_error_calls,
                       personalized_sent>>

NextProgress == CallRecordError \/ CallResetSessionErrors \/ CallResetWeeklyErrors

SpecProgress == InitProgress /\ [][NextProgress]_vars

-----------------------------------------------------------------------------
(* Specification SpecChat: the chat sessions of chat_service, reached through *)
(* the chat endpoints and the personalized endpoints                          *)

AvatarIds == {"minsu_senior", "sujin_friend"}

\* AVATARS[avatar_id], the fields the chat reads; the greeting is shortened
AVATARS(avatar_id) ==
    CASE avatar_id = "minsu_senior" ->
             [ role |-> RoleSenior, age |-> 26, formality |-> "polite",
               greeting |-> <<"an", "nyeong", "!">> ]
      [] avatar_id = "sujin_friend" ->
             [ role |-> RoleFriend, age |-> 22, formality |-> "informal",
               greeting |-> <<"ya", "!">> ]

\* avatar_id of the start requests: a known avatar and an unknown one
StartAvatarIds == {"minsu_senior", "nobody"}

\* topic of the start requests: none and a sensitive one
StartTopics == {None, Some("politics")}

\* user_id of the start requests
ChatUserIds == {"user_a"}

\* topic_service.is_sensitive(topic)
IsSensitive(topic) == topic \in {"politics", "religion"}

\* the messages the users send
ChatMessages == {Example1Text, Example2Text}

\* session ids of the requests: those start_session hands out, in order
SessionIds == 1..MaxSessions

\* topic_service.detect(message, top_k=1) reduced to the topic it returns with
\* confidence above 0.3: "gyosunim" is one of the 7 keywords of professor_meeting,
\* the default result for no keyword has confidence 0.1
DetectTopic(message) ==
    IF Contains(message, Gyosunim) THEN Some("professor_meeting") ELSE None

\* f"{session.avatar_id}_{session.topic}"
ContextOf(avatar_id, topic) ==
    CASE avatar_id = "minsu_senior" /\ topic = None -> "minsu_senior_None"
      [] avatar_id = "minsu_senior" /\ topic = Some("daily_life") -> "minsu_senior_daily_life"
      [] avatar_id = "minsu_senior" /\ topic = Some("professor_meeting") ->
             "minsu_senior_professor_meeting"
      [] avatar_id = "sujin_friend" /\ topic = None -> "sujin_friend_None"
      [] avatar_id = "sujin_friend" /\ topic = Some("daily_life") -> "sujin_friend_daily_life"
      [] avatar_id = "sujin_friend" /\ topic = Some("professor_meeting") ->
             "sujin_friend_professor_meeting"

\* ChatSession.__init__
ChatSession(session_id, user_id, avatar_id, topic) ==
    [ session_id |-> session_id, user_id |-> user_id, avatar_id |-> avatar_id,
      topic |-> topic, messages |-> <<>>, scores |-> <<>> ]

\* ChatSession.add_message; the timestamps are left out
AddMessage(session, role, content, feedback) ==
    [session EXCEPT
        !.messages = Append(@, [role |-> role, content |-> content, feedback |-> feedback]),
        !.scores = IF ~IsNone(feedback) THEN Append(@, Get(feedback).score) ELSE @]

\* the user messages of a session: [m for m in messages if m["role"] == "user"]
UserMessages(session) == SelectSeq(session.messages, LAMBDA msg : msg.role = "user")

RECURSIVE Sum(_)
Sum(scores) == IF scores = <<>> THEN 0 ELSE Head(scores) + Sum(Tail(scores))

RECURSIVE MaxOf(_)
MaxOf(scores) ==
    IF Len(scores) = 1 THEN Head(scores) ELSE Max(Head(scores), MaxOf(Tail(scores)))

RECURSIVE MinOf(_)
MinOf(scores) ==
    IF Len(scores) = 1 THEN Head(scores) ELSE Min(Head(scores), MinOf(Tail(scores)))

\* round(total / count, 1) in tenths; an exact tie goes to the even digit
Round1(total, count) ==
    LET q == (10 * total) \div count
        r == (10 * total) % count
    IN  IF 2 * r > count THEN q + 1
        ELSE IF 2 * r < count THEN q
        ELSE IF q % 2 = 0 THEN q ELSE q + 1

\* ChatSession.get_summary without the times; average_score in tenths
GetSummary(session) ==
    [ session_id |-> session.session_id,
      avatar_id |-> session.avatar_id,
      total_turns |-> Len(UserMessages(session)),
      average_score |-> IF session.scores # <<>>
                        THEN Round1(Sum(session.scores), Len(session.scores)) ELSE 0 ]

\* the feedback dict send_message builds from politeness_service.analyze
Feedback(message, avatar) ==
    LET analysis == PolitenessAnalyze(message, Some(avatar.role), Some(avatar.age),
                                      DefaultUserAge)
    IN  [ level |-> analysis.level, score |-> analysis.score,
          is_appropriate |-> analysis.is_appropriate ]

\* what clova_service.generate_avatar_response returns for a user message; only
\* the message it answers is kept of the generated text
GeneratedReply(message) == <<"re", ":", " ">> \o message

\* ChatService._get_fallback_response(formality), shortened
FallbackResponse(formality) ==
    CASE formality = "informal" -> <<"eung", "?">>
      [] formality = "polite" -> <<"joe", "song", "hae", "yo">>
      [] formality = "very_polite" -> <<"joe", "song", "hap", "ni", "da">>
      [] OTHER -> <<"ne", "?">>

\* a lookup in place of the pop: the dict keeps the session
PopSessionKeepingIt(sessions, session_id) == sessions

\* self._sessions.pop(session_id, None): the dict afterwards
PopSession(sessions, session_id) ==
    [k \in DOMAIN sessions \ {session_id} |-> sessions[k]]

\* a list without its i-th element
RemoveAt(list, i) == SubSeq(list, 1, i - 1) \o SubSeq(list, i + 1, Len(list))

\* send_message calls that have passed the session check
SendsAccepted ==
    Sum([ref \in DOMAIN session_objects |-> Len(UserMessages(session_objects[ref]))])

\* the ValueError of send_message and end_session, the 404 of the endpoints
SessionNotFound(call, session_id) ==
    [ call |-> call, status |-> "Session not found", session_id |-> session_id ]

\* ChatService.send_message from its entry to the await on
\* clova_service.generate_avatar_response: the session after the topic
\* detection and add_message("user", message, feedback)
SendMessageToAwait(session, message, include_feedback) ==
    LET avatar == AVATARS(session.avatar_id)
        detected == IF IsNone(session.topic) THEN DetectTopic(message) ELSE session.topic
        feedback == IF include_feedback THEN Some(Feedback(message, avatar)) ELSE None
    IN  AddMessage([session EXCEPT !.topic = detected], "user", message, feedback)

\* the frame of a send_message call suspended at the await
SendFrame(endpoint, session_id, ref, message) ==
    [ endpoint |-> endpoint, session_id |-> session_id, session |-> ref,
      message |-> message ]

\* record_error for each error of an analysis, in order
RECURSIVE RecordErrors(_, _, _, _)
RecordErrors(all_errors, user_id, errors, context) ==
    IF errors = <<>> THEN all_errors
    ELSE RecordErrors(RecordError(all_errors, user_id, Head(errors).error_type,
                                  ErrorNameKo(Head(errors).error_type),
                                  ErrorNameEn(Head(errors).error_type), context),
                      user_id, Tail(errors), context)

RECURSIVE NoteRecordErrors(_, _, _)
NoteRecordErrors(calls_so_far, user_id, errors) ==
    IF errors = <<>> THEN calls_so_far
    ELSE NoteRecordErrors(NoteRecordError(calls_so_far, user_id, Head(errors).error_type),
                          user_id, Tail(errors))

InitChat ==
    /\ pc = "chat"
    /\ text = <<>>
    /\ target_role = None
    /\ target_age = None
    /\ user_age = DefaultUserAge
    /\ args = None
    /\ result = None
    /\ Constructed
    /\ StoresConstructed
    /\ calls = <<>>

\* chat_service.start_session(user_id, avatar_id, topic); the session ids,
\* 12 characters of a uuid4, are taken to be fresh and are numbered in order
CallStartSession ==
    \E user_id \in ChatUserIds : \E avatar_id \in StartAvatarIds :
    \E topic \in StartTopics :
        LET known_avatar_id == IF avatar_id \in AvatarIds THEN avatar_id ELSE "sujin_friend"
            safe_topic == IF ~IsNone(topic) /\ IsSensitive(Get(topic)) THEN None ELSE topic
            session_id == Len(session_objects) + 1
            session == ChatSession(session_id, user_id, known_avatar_id, safe_topic)
            greeting == AVATARS(known_avatar_id).greeting
        IN  /\ Len(session_objects) < MaxSessions
            /\ pc' = "start_session"
            /\ session_objects' =
                   Append(session_objects, AddMessage(session, "assistant", greeting, None))
            /\ chat_sessions' = DictSet(chat_sessions, session_id, session_id)
            /\ personalized_sent' = Append(personalized_sent, <<>>)
            /\ result' = Some([ call |-> "start_session", status |-> "ok",
                                session_id |-> session_id, avatar_id |-> known_avatar_id,
                                greeting |-> greeting ])
            /\ UNCHANGED <<text, target_role, target_age, user_age, args, service, calls,
                           progress_errors, record_error_calls>>

\* chat_service.send_message(session_id, message, include_feedback) up to its
\* await on the reply, or to the ValueError for an unknown session
CallSendMessage ==
    \E session_id \in SessionIds : \E message \in ChatMessages :
    \E include_feedback \in BOOLEAN :
        /\ pc' = "send_message"
        /\ IF session_id \notin DOMAIN chat_sessions
           THEN /\ result' = Some(SessionNotFound("send_message", session_id))
                /\ UNCHANGED <<calls, stores>>
           ELSE LET ref == chat_sessions[session_id]
                IN  /\ SendsAccepted < MaxSends
                    /\ Len(calls) < NumCallers
                    /\ session_objects' =
                           [session_objects EXCEPT
                               ![ref] = SendMessageToAwait(@, message, include_feedback)]
                    /\ calls' = Append(calls, SendFrame("message", session_id, ref, message))
                    /\ result' = Some([ call |-> "send_message", status |-> "awaiting",
                                        session_id |-> session_id ])
                    /\ UNCHANGED <<chat_sessions, progress_errors, record_error_calls,
                                   personalized_sent>>
        /\ UNCHANGED <<text, target_role, target_age, user_age, args, service>>

\* a suspended send_message resumes: the reply was generated or the fallback
\* replaces it after an exception; add_message("assistant", ...) on the session
\* object the call holds, then the return (the audio is attached to the return
\* value only)
ResumeSendMessage ==
    \E i \in DOMAIN calls : \E generated \in BOOLEAN :
        LET frame == calls[i]
            session == session_objects[frame.session]
            avatar_response == IF generated THEN GeneratedReply(frame.message)
                               ELSE FallbackResponse(AVATARS(session.avatar_id).formality)
            replied == AddMessage(session, "assistant", avatar_response, None)
        IN  /\ pc' = "send_message_returned"
            /\ session_objects' = [session_objects EXCEPT ![frame.session] = replied]
            /\ calls' = RemoveAt(calls, i)
            /\ result' = Some([ call |-> frame.endpoint, status |-> "ok",
                                session_id |-> frame.session_id,
                                avatar_response |-> avatar_response,
                                turn_count |-> Len(UserMessages(replied)),
                                current_topic |-> replied.topic ])
            /\ UNCHANGED <<text, target_role, target_age, user_age, args, service,
                           chat_sessions, progress_errors, record_error_calls,
                           personalized_sent>>

\* chat_service.end_session(session_id), as end_chat calls it; the suggestions
\* of the summary are texts and left out
CallEndSession ==
    \E session_id \in SessionIds :
        /\ pc' = "end_session"
        /\ IF session_id \notin DOMAIN chat_sessions
           THEN /\ result' = Some(SessionNotFound("end_session", session_id))
                /\ UNCHANGED chat_sessions
           ELSE LET session == session_objects[chat_sessions[session_id]]
                    scored == SelectSeq(UserMessages(session),
                                        LAMBDA msg : ~IsNone(msg.feedback))
                    level_counts ==
                        [l \in MainLevels \cup {Get(scored[j].feedback).level :
                                                    j \in DOMAIN scored} |->
                            Cardinality({j \in DOMAIN scored :
                                             Get(scored[j].feedback).level = l})]
                IN  /\ chat_sessions' = PopSession(chat_sessions, session_id)
                    /\ result' = Some([ call |-> "end_session", status |-> "ok",
                                        session_id |-> session_id,
                                        summary |-> GetSummary(session),
                                        politeness_breakdown |-> level_counts ])
        /\ UNCHANGED <<text, target_role, target_age, user_age, args, service, calls,
                       session_objects, progress_errors, record_error_calls,
                       personalized_sent>>

\* chat_service.get_session(session_id)
CallGetSession ==
    \E session_id \in SessionIds :
        /\ pc' = "get_session"
        /\ result' = Some([ call |-> "get_session", status |-> "ok",
                            session_id |-> session_id,
                            session |-> IF session_id \in DOMAIN chat_sessions
                                        THEN Some(chat_sessions[session_id]) ELSE None ])
        /\ UNCHANGED <<text, target_role, target_age, user_age, args, service, calls,
                       stores>>

\* send_personalized_message up to the await inside chat_service.send_message;
\* the user context is the one get_user_context(session.user_id) returns, the
\* skill and profile stores of progress_service are not part of the model
CallSendPersonalizedMessage ==
    \E session_id \in SessionIds : \E message \in ChatMessages :
        /\ pc' = "send_personalized_message"
        /\ IF session_id \notin DOMAIN chat_sessions
           THEN /\ result' = Some(SessionNotFound("send_personalized_message", session_id))
                /\ UNCHANGED <<calls, stores>>
           ELSE LET ref == chat_sessions[session_id]
                    session == session_objects[ref]
                    avatar == AVATARS(session.avatar_id)
                    analysis == EnhancedAnalyze(message, Some(avatar.role),
                                                Some(avatar.age), DefaultUserAge)
                    context == Some(ContextOf(session.avatar_id, session.topic))
                IN  /\ SendsAccepted < MaxSends
                    /\ Len(calls) < NumCallers
                    /\ progress_errors' = RecordErrors(progress_errors, session.user_id,
                                                       analysis.errors, context)
                    /\ record_error_calls' = NoteRecordErrors(record_error_calls,
                                                              session.user_id,
                                                              analysis.errors)
                    /\ personalized_sent' =
                           [personalized_sent EXCEPT ![ref] = Append(@, analysis.score)]
                    /\ session_objects' =
                           [session_objects EXCEPT
                               ![ref] = SendMessageToAwait(@, message, FALSE)]
                    /\ calls' = Append(calls,
                                       SendFrame("send_personalized_message", session_id,
                                                 ref, message))
                    /\ result' = Some([ call |-> "send_personalized_message",
                                        status |-> "awaiting", session_id |-> session_id,
                                        score |-> analysis.score ])
                    /\ UNCHANGED chat_sessions
        /\ UNCHANGED <<text, target_role, target_age, user_age, args, service>>

\* end_session_with_summary: the statistics read from session.scores, then
\* chat_service.end_session; average_score is the quotient sum / count, kept
\* as the pair <<sum, count>>, and 0 is <<0, 1>>
CallEndSessionWithSummary ==
    \E session_id \in SessionIds :
        /\ pc' = "end_session_with_summary"
        /\ IF session_id \notin DOMAIN chat_sessions
           THEN /\ result' = Some(SessionNotFound("end_session_with_summary", session_id))
                /\ UNCHANGED chat_sessions
           ELSE LET ref == chat_sessions[session_id]
                    session == session_objects[ref]
                    scores == session.scores
                IN  /\ chat_sessions' = PopSession(chat_sessions, session_id)
                    /\ result' =
                           Some([ call |-> "end_session_with_summary", status |-> "ok",
                                  session_id |-> session_id, session |-> ref,
                                  average_score |-> IF scores # <<>>
                                                    THEN <<Sum(scores), Len(scores)>>
                                                    ELSE <<0, 1>>,
                                  highest_score |-> IF scores # <<>> THEN MaxOf(scores) ELSE 0,
                                  lowest_score |-> IF scores # <<>> THEN MinOf(scores) ELSE 0,
                                  total_messages |-> Len(UserMessages(session)),
                                  correct_messages |->
                                      Len(SelectSeq(scores, LAMBDA s : s >= 70)),
                                  recorded_scores |-> Len(scores) ])
        /\ UNCHANGED <<text, target_role, target_age, user_age, args, service, calls,
                       session_objects, progress_errors, record_error_calls,
                       personalized_sent>>

NextChat ==
    \/ CallStartSession
    \/ CallSendMessage
    \/ ResumeSendMessage
    \/ CallEndSession
    \/ CallGetSession
    \/ CallSendPersonalizedMessage
    \/ CallEndSessionWithSummary

SpecChat == InitChat /\ [][NextChat]_vars

-----------------------------------------------------------------------------
(* Claims *)

\* the rank order Informal < Polite < VeryPolite of the three registers
Rank(register) ==
    CASE register = "informal" -> 0
      [] register = "polite" -> 1
      [] register = "very_polite" -> 2

Returned == Get(result)
HasRole == ~IsNone(target_role) /\ Get(target_role) # <<>>
AgeEscalation == ~IsNone(target_age) /\ Get(target_age) > user_age + 3

\* C1: for every dominant register (Mixed included), expected register,
\* level ratios and error count, the score either scorer returns is an
\* integer in [0,100].
C1_ScoreInRange ==
    pc \in {"enhanced_score", "base_score"} => Returned \in 0..100

\* C1 witness: the sentence-level scorer on a formal text with strong
\* honorifics, where the sum exceeds 100 and the clamp acts.
C1_Witness ==
    /\ pc = "base_score"
    /\ Get(args).dominant = "very_polite"
    /\ PolitenessScoreSum(Get(args).dominant, Get(args).honorific_score,
                          Get(args).counts) > 100
    /\ Returned = 100

\* C2: in every token analysis analyze produces, is_correct is true for a
\* Neutral or Honorific token, and for an Informal, Polite or VeryPolite
\* token is_correct holds exactly when rank(detected) >= rank(expected).
C2_TokenCorrectness ==
    pc = "enhanced" =>
        \A i \in DOMAIN Returned.word_analysis :
            LET a == Returned.word_analysis[i]
            IN  /\ a.current_level \in TokenLevels
                /\ a.current_level \in {"neutral", "honorific"} => a.is_correct
                /\ a.current_level \in MainLevels =>
                       (a.is_correct <=>
                            Rank(a.current_level) >= Rank(Get(Returned.recommended_level)))

\* C2 witness: one analysis with a token below the expected register
\* (incorrect) and a token above it (correct).
C2_Witness ==
    /\ pc = "enhanced"
    /\ Returned.recommended_level = Some("polite")
    /\ \E i, j \in DOMAIN Returned.word_analysis :
           /\ Returned.word_analysis[i].current_level = "informal"
           /\ ~Returned.word_analysis[i].is_correct
           /\ Returned.word_analysis[j].current_level = "very_polite"
           /\ Returned.word_analysis[j].is_correct

\* C3: analyzing Example 1 ("bap meogeosseo?") for a friend, no target age,
\* default speaker age, yields expected Informal, dominant Informal,
\* is_appropriate = true and score >= 70.
C3_Example1 ==
    ( /\ pc \in {"enhanced", "base"}
      /\ text = Example1Text
      /\ target_role = Some(RoleFriend)
      /\ target_age = None
      /\ user_age = DefaultUserAge )
    => /\ Returned.recommended_level = Some("informal")
       /\ Returned.level = "informal"
       /\ Returned.is_appropriate
       /\ Returned.score >= 70

\* C4: the expected register is VeryPolite for professor and boss whatever
\* the ages are, and Polite for senior; the role is matched
\* case-insensitively.
C4_RoleLevels ==
    (pc \in {"expected", "recommended"} /\ HasRole) =>
        /\ Lower(Get(target_role)) \in {RoleProfessor, RoleBoss} => Returned = "very_polite"
        /\ Lower(Get(target_role)) = RoleSenior => Returned = "polite"

\* C4 witness: an upper-case "BOSS" with a target younger than the speaker.
C4_Witness ==
    /\ pc \in {"expected", "recommended"}
    /\ target_role = Some(RoleBossUpper)
    /\ ~IsNone(target_age) /\ Get(target_age) < user_age
    /\ Returned = "very_polite"

\* C5: for a peer-level or junior role the expected register is Polite when
\* target_age is present and target_age > speaker_age + 3, and Informal
\* when target_age is absent or target_age <= speaker_age + 3.
C5_AgeEscalation ==
    ( /\ pc \in {"expected", "recommended"}
      /\ HasRole
      /\ Lower(Get(target_role)) \in {RoleJunior, RoleStudent, RoleFriend, RolePeer} )
    => Returned = IF AgeEscalation THEN "polite" ELSE "informal"

\* C6: a role that is not in the role table is treated as level 1 (peer)
\* and gets Informal unless an age escalation applies.
C6_UnknownRole ==
    ( /\ pc \in {"expected", "recommended"}
      /\ HasRole
      /\ Lower(Get(target_role)) \notin KnownRoles
      /\ ~AgeEscalation )
    => Returned = "informal"

\* C7 as stated: with no target role (null or empty) the expected register
\* is Polite and decides appropriateness, in either service.
C7_NoRolePolite ==
    (pc \in {"enhanced", "base"} /\ ~HasRole) =>
        /\ Returned.recommended_level = Some("polite")
        /\ Returned.is_appropriate <=>
               (Returned.level # "mixed" /\ Rank(Returned.level) >= Rank("polite"))

\* C7 amended: with no target role the word-level analyze uses Polite as the
\* expected register for token correctness, appropriateness and scoring;
\* the sentence-level analyze uses no expected register (recommended_level
\* is null) and reports is_appropriate = true; both return a result.
C7_NoRoleAmended ==
    (pc \in {"enhanced", "base"} /\ ~HasRole) =>
        /\ ~IsNone(result)
        /\ pc = "enhanced" =>
              /\ Returned.recommended_level = Some("polite")
              /\ \A i \in DOMAIN Returned.word_analysis :
                     LET a == Returned.word_analysis[i]
                     IN  a.current_level \in MainLevels =>
                             /\ a.expected_level = Some("polite")
                             /\ a.is_correct <=> Rank(a.current_level) >= Rank("polite")
              /\ Returned.is_appropriate <=>
                     (Returned.level # "mixed" /\ Rank(Returned.level) >= Rank("polite"))
              /\ Returned.score =
                     CalculateScore(Returned.level, "polite", Returned.level_breakdown,
                                    Len(Returned.errors))
        /\ pc = "base" =>
              /\ IsNone(Returned.recommended_level)
              /\ Returned.is_appropriate

\* C7 witness: a word-level call without a role whose informal token is
\* flagged against Polite.
C7_Witness ==
    /\ pc = "enhanced"
    /\ IsNone(target_role)
    /\ Returned.level = "informal"
    /\ ~Returned.is_appropriate
    /\ \E i \in DOMAIN Returned.word_analysis : ~Returned.word_analysis[i].is_correct

\* C8: whenever the weights of the honorific marker words contained in the
\* text sum to 15 or more, the dominant register analyze reports is
\* VeryPolite.
C8_HonorificOverride ==
    (pc \in {"enhanced", "base"} /\ SumPoints(HonorificsFound(text)) >= 15) =>
        Returned.level = "very_polite"

\* C9: in the word-level variant the dominant register is Mixed if and only
\* if at least two of the three main registers each account for more than
\* 20% of the register-bearing tokens.
C9_MixedIff ==
    pc = "dominant" =>
        LET tokens == Get(args).analyses
            n(l) == Cardinality({i \in DOMAIN tokens : tokens[i].current_level = l})
            bearing == n("informal") + n("polite") + n("very_polite")
        IN  Returned.level = "mixed" <=>
                Cardinality({l \in MainLevels : 5 * n(l) > bearing}) >= 2

\* C10: is_appropriate is true if and only if the dominant register is not
\* Mixed and rank(dominant) >= rank(expected); Mixed gives false for every
\* expected register.
C10_Appropriate ==
    (pc \in {"enhanced", "base"} /\ ~IsNone(Returned.recommended_level)) =>
        (Returned.is_appropriate <=>
            /\ Returned.level # "mixed"
            /\ Rank(Returned.level) >= Rank(Get(Returned.recommended_level)))

\* C10 witness: a Mixed text analysed against the expected register Informal.
C10_Witness ==
    /\ pc = "enhanced"
    /\ Returned.level = "mixed"
    /\ Returned.recommended_level = Some("informal")
    /\ ~Returned.is_appropriate

\* C11: in the word-level scorer a Mixed dominant register never receives
\* the +30 match bonus, whatever the expected register is: with the other
\* terms equal, its score is never 40 above the score of the lowest match
\* term (-10).
C11_MixedNoMatchBonus ==
    (pc = "enhanced_score" /\ Get(args).dominant = "mixed") =>
        LET b == BreakdownOfCounts(Get(args).counts)
            n == Get(args).error_count
        IN  Returned - CalculateScore("informal", "very_polite", b, n) # 40

\* C12: when neither the honorific override nor Mixed applies, the dominant
\* register is VeryPolite if any unit is VeryPolite, else Polite if there are
\* strictly more Polite than Informal units, else Informal if any unit is
\* Informal, else Polite.
C12_DominantOrder ==
    pc = "dominant" =>
        LET tokens == Get(args).analyses
            n(l) == Cardinality({i \in DOMAIN tokens : tokens[i].current_level = l})
            bearing == n("informal") + n("polite") + n("very_polite")
            mixed == Cardinality({l \in MainLevels : 5 * n(l) > bearing}) >= 2
        IN  (n("honorific") = 0 /\ ~mixed /\ Returned.level # "mixed") =>
                Returned.level =
                    IF n("very_polite") > 0 THEN "very_polite"
                    ELSE IF n("polite") > n("informal") THEN "polite"
                    ELSE IF n("informal") > 0 THEN "informal"
                    ELSE "polite"

\* C13: in the level breakdown the Informal, Polite and VeryPolite ratios
\* are taken over the register-bearing tokens only (Neutral and Honorific
\* tokens are not in the denominator), and the honorific ratio is taken
\* over all tokens; each is reported to two decimals.
C13_BreakdownRatios ==
    pc \in {"breakdown", "dominant"} =>
        LET tokens == Get(args).analyses
            n(l) == Cardinality({i \in DOMAIN tokens : tokens[i].current_level = l})
            bearing == n("informal") + n("polite") + n("very_polite")
        IN  bearing > 0 =>
                /\ \A l \in MainLevels :
                       Returned.level_breakdown[l] = Round2(n(l), bearing)
                /\ Returned.level_breakdown["honorific"] =
                       Round2(n("honorific"), Len(tokens))

\* C14: every correction analyze emits is for a token with is_correct =
\* false, and its corrected text is the entry of the conversion table the
\* (detected, expected) pair selects, for the token's exact surface text; an
\* incorrect token without such an entry yields no correction, and the call
\* still returns.
C14_CorrectionsFromTables ==
    pc = "enhanced" =>
        LET expected == Get(Returned.recommended_level)
            Table(current) ==
                IF current = "informal" /\ expected = "polite" THEN INFORMAL_TO_POLITE
                ELSE IF current = "polite" /\ expected = "very_polite" THEN POLITE_TO_FORMAL
                ELSE IF current = "informal" /\ expected = "very_polite"
                     THEN INFORMAL_TO_FORMAL
                ELSE <<>>
            Entry(a) == DictGet(Table(a.current_level), a.word)
            fixable == SelectSeq(Returned.word_analysis,
                                 LAMBDA a : ~a.is_correct /\ ~IsNone(Entry(a)))
            cs == Returned.corrections
        IN  /\ Len(cs) = Len(fixable)
            /\ \A k \in DOMAIN cs :
                   /\ cs[k].original = fixable[k].word
                   /\ cs[k].corrected = Get(Entry(fixable[k]))

\* C14 witness: an analysis against VeryPolite with a corrected polite token
\* and an incorrect informal token that the table has no entry for.
C14_Witness ==
    /\ pc = "enhanced"
    /\ Returned.recommended_level = Some("very_polite")
    /\ \E k \in DOMAIN Returned.corrections :
           /\ Returned.corrections[k].original = Isseoyo
           /\ Returned.corrections[k].corrected = Issseumnida
    /\ \E i \in DOMAIN Returned.word_analysis :
           /\ Returned.word_analysis[i].word = Meogeosseo
           /\ ~Returned.word_analysis[i].is_correct
           /\ \A k \in DOMAIN Returned.corrections :
                  Returned.corrections[k].position_start
                      # Returned.word_analysis[i].position_start

\* C15: the spans [position_start, position_end) of the tokens are exact
\* (the text between the offsets is the token's surface text), strictly
\* increasing in token order and pairwise disjoint, also when a word occurs
\* several times; each correction carries the span of its token, so no two
\* corrections of one analysis overlap.
C15_Spans ==
    pc = "enhanced" =>
        LET tokens == Returned.word_analysis
            cs == Returned.corrections
        IN  /\ \A i \in DOMAIN tokens :
                   /\ 0 <= tokens[i].position_start
                   /\ tokens[i].position_start < tokens[i].position_end
                   /\ tokens[i].position_end <= Len(text)
                   /\ Slice(text, tokens[i].position_start, tokens[i].position_end)
                          = tokens[i].word
            /\ \A i \in DOMAIN tokens : \A j \in DOMAIN tokens :
                   i < j => tokens[i].position_end <= tokens[j].position_start
            /\ \A k \in DOMAIN cs : \E i \in DOMAIN tokens :
                   /\ tokens[i].word = cs[k].original
                   /\ tokens[i].position_start = cs[k].position_start
                   /\ tokens[i].position_end = cs[k].position_end
            /\ \A k \in DOMAIN cs : \A m \in DOMAIN cs :
                   k < m => cs[k].position_end <= cs[m].position_start

\* C15 witness: the same word occurs twice and both occurrences are
\* corrected, at different spans.
C15_Witness ==
    /\ pc = "enhanced"
    /\ \E k \in DOMAIN Returned.corrections : \E m \in DOMAIN Returned.corrections :
           /\ k < m
           /\ Returned.corrections[k].original = Returned.corrections[m].original
           /\ Returned.corrections[k].position_start = 0
           /\ Returned.corrections[m].position_start > 0

\* C18: in every analysis result a token has the error key ending_mismatch
\* exactly when is_correct is false and a null error key exactly when
\* is_correct is true; no other key is assigned, so the list of error
\* summaries has at most one entry.
C18_ErrorKeys ==
    pc = "enhanced" =>
        /\ \A i \in DOMAIN Returned.word_analysis :
               LET a == Returned.word_analysis[i]
               IN  /\ a.error_type = Some("ending_mismatch") <=> ~a.is_correct
                   /\ IsNone(a.error_type) <=> a.is_correct
        /\ Len(Returned.errors) <= 1
        /\ \A k \in DOMAIN Returned.errors :
               Returned.errors[k].error_type = "ending_mismatch"

\* C18 witness: an informal and a polite token both flagged against
\* VeryPolite, next to a correct token, summarised in one entry.
C18_Witness ==
    /\ pc = "enhanced"
    /\ Len(Returned.errors) = 1
    /\ Returned.errors[1].count = 2
    /\ \E i, j, k \in DOMAIN Returned.word_analysis :
           /\ Returned.word_analysis[i].current_level = "informal"
           /\ ~Returned.word_analysis[i].is_correct
           /\ Returned.word_analysis[j].current_level = "polite"
           /\ ~Returned.word_analysis[j].is_correct
           /\ Returned.word_analysis[k].is_correct

\* the text with every correction written over its span, last span first
RECURSIVE ApplyCorrections(_, _)
ApplyCorrections(txt, corrections) ==
    IF corrections = <<>> THEN txt
    ELSE LET c == corrections[Len(corrections)]
         IN  ApplyCorrections(Slice(txt, 0, c.position_start) \o c.corrected
                                  \o Slice(txt, c.position_end, Len(txt)),
                              SubSeq(corrections, 1, Len(corrections) - 1))

\* C19: replacing each corrected token at its span by the corrected text
\* and analyzing the resulting text with the same context yields a score
\* that is not lower than the score of the original analysis.
C19_RoundTrip ==
    pc = "enhanced" =>
        EnhancedAnalyze(ApplyCorrections(text, Returned.corrections),
                        target_role, target_age, user_age).score >= Returned.score

\* the severity tiers in the order high, medium, low
Tier(severity) ==
    CASE severity = "high" -> 0
      [] severity = "medium" -> 1
      [] severity = "low" -> 2

C17_OneSummaryPerKey ==
    pc = "errors" =>
        LET tokens == Get(args).analyses
            keys == {Get(tokens[i].error_type) :
                         i \in {n \in DOMAIN tokens : ~IsNone(tokens[n].error_type)}}
            Carrying(k) == SelectSeq(tokens, LAMBDA a : a.error_type = Some(k))
            Shown(a) == <<a.word,
                          IF IsNone(a.suggestion) THEN <<"?">> ELSE Get(a.suggestion)>>
        IN  /\ Len(Returned) = Cardinality(keys)
            /\ \A k \in keys : \E i \in DOMAIN Returned :
                   /\ Returned[i].error_type = k
                   /\ Returned[i].count = Len(Carrying(k))
                   /\ Returned[i].severity = ErrorSeverity(k)
                   /\ Returned[i].examples =
                          [j \in 1..Min(3, Len(Carrying(k))) |-> Shown(Carrying(k)[j])]

\* C17 witness: four tokens carry one key, the first without a suggestion;
\* the summary counts four and keeps three examples, "?" first.
C17_Witness ==
    /\ pc = "errors"
    /\ Len(Returned) = 1
    /\ Returned[1].count = 4
    /\ Len(Returned[1].examples) = 3
    /\ Returned[1].examples[1] = <<Hae, <<"?">> >>
    /\ Returned[1].examples[2] = <<Hae, Haeyo>>

\* the value analyze returns for the arguments of call c, taken alone
AloneResult(c) ==
    IF calls[c].service = "enhanced"
    THEN EnhancedAnalyze(calls[c].text, calls[c].target_role, None, DefaultUserAge)
    ELSE PolitenessAnalyze(calls[c].text, calls[c].target_role, None, DefaultUserAge)

\* C20: analyze writes no state that outlives the call: the services'
\* compiled patterns and word-level map stay as constructed under every
\* interleaving of calls, each finished call's result is the one its own
\* arguments determine, and two calls with equal arguments return identical
\* results.
C20_NoSharedState ==
    pc = "calls" =>
        /\ Constructed
        /\ \A c \in Callers :
               calls[c].pc = "done" => calls[c].result = Some(AloneResult(c))
        /\ \A c \in Callers : \A d \in Callers :
               ( /\ calls[c].pc = "done"
                 /\ calls[d].pc = "done"
                 /\ calls[c].service = calls[d].service
                 /\ calls[c].text = calls[d].text
                 /\ calls[c].target_role = calls[d].target_role )
               => calls[c].result = calls[d].result

\* C20 witness: a word-level call for a professor has returned while a
\* word-level call for a friend is between two of its statements.
C20_Witness ==
    /\ pc = "calls"
    /\ \E c \in Callers : \E d \in Callers :
           /\ calls[c].service = "enhanced"
           /\ calls[c].target_role = Some(RoleProfessor)
           /\ calls[c].pc = "done"
           /\ ~Get(calls[c].result).is_appropriate
           /\ calls[d].service = "enhanced"
           /\ calls[d].target_role = Some(RoleFriend)
           /\ calls[d].text = calls[c].text
           /\ calls[d].pc = "expected"

\* the result of an analyze call of either service is complete
CompleteResult ==
    /\ ~IsNone(result)
    /\ Returned.level \in MainLevels \cup {"mixed"}
    /\ Returned.score \in 0..100
    /\ Returned.is_appropriate \in BOOLEAN

\* the analysed text has no register-bearing unit: no token (word-level) or
\* sentence (sentence-level) with an Informal, Polite or VeryPolite ending
NoRegisterBearingUnit ==
    IF pc = "enhanced"
    THEN \A i \in DOMAIN Returned.word_analysis :
             Returned.word_analysis[i].current_level \notin MainLevels
    ELSE \A l \in MainLevels : Returned.details.level_counts[l] = 0

\* C21 as stated: analyze returns a complete result for every text, and the
\* dominant register is Polite when there is no register-bearing unit.
C21_DefaultPolite ==
    pc \in {"enhanced", "base"} =>
        /\ CompleteResult
        /\ NoRegisterBearingUnit => Returned.level = "polite"

\* C21 amended: analyze returns a complete result for every text; without a
\* register-bearing unit the dominant register is Polite, except that the
\* sentence-level service reports VeryPolite when the honorific weights of
\* the text sum to 15 or more.
C21_DefaultPoliteAmended ==
    pc \in {"enhanced", "base"} =>
        /\ CompleteResult
        /\ NoRegisterBearingUnit =>
               Returned.level =
                   IF pc = "base" /\ Returned.details.honorific_score >= 15
                   THEN "very_polite" ELSE "polite"

\* C21 witness: the sentence-level service on a text of punctuation only,
\* all of whose sentences are discarded as empty.
C21_Witness ==
    /\ pc = "base"
    /\ text = PunctuationText
    /\ NoRegisterBearingUnit
    /\ Returned.level = "polite"

\* C22: a unit is classified by a fixed decision order: the ending-pattern
\* sets are tested VeryPolite, Polite, Informal and the first set with a
\* match decides; only when no pattern matches is the unit Honorific if it
\* contains an honorific marker word and Neutral otherwise (the
\* sentence-level variant then reports no register); the word-level map,
\* consulted first, never assigns anything else than this order gives.
C22_DecisionOrder ==
    pc \in {"word_level", "sentence_level"} =>
        LET unit == IF pc = "word_level" THEN text ELSE Strip(text)
            Matches(level) ==
                \E i \in DOMAIN ENDING_PATTERNS(level) :
                    PatternSearch(ENDING_PATTERNS(level)[i], unit)
            by_order ==
                IF Matches("very_polite") THEN "very_polite"
                ELSE IF Matches("polite") THEN "polite"
                ELSE IF Matches("informal") THEN "informal"
                ELSE IF \E h \in HonorificKeys : Contains(unit, h) THEN "honorific"
                ELSE "neutral"
        IN  IF pc = "word_level" THEN Returned = by_order
            ELSE Returned = IF by_order \in MainLevels THEN Some(by_order) ELSE None

\* C23: tokenization returns, in text order, exactly the maximal runs of
\* word characters (one token each) and every other non-whitespace
\* character (one token each); no token holds whitespace and the tokens
\* concatenated give the text with its whitespace removed.
C23_Tokens ==
    pc = "tokens" =>
        LET tokens == Returned
            \* the positions of the non-whitespace characters of the text
            solid == SelectSeq([i \in 1..Len(text) |-> i], LAMBDA i : ~IsSpace(text[i]))
            Before(k) == Len(Concat(SubSeq(tokens, 1, k - 1)))
        IN  /\ Concat(tokens) = SelectSeq(text, LAMBDA c : ~IsSpace(c))
            /\ \A k \in DOMAIN tokens :
                   LET first == solid[Before(k) + 1]
                       last == solid[Before(k) + Len(tokens[k])]
                   IN  /\ tokens[k] # <<>>
                       /\ last - first = Len(tokens[k]) - 1
                       /\ \/ /\ \A j \in DOMAIN tokens[k] : IsWordChar(tokens[k][j])
                             /\ first = 1 \/ ~IsWordChar(text[first - 1])
                             /\ last = Len(text) \/ ~IsWordChar(text[last + 1])
                          \/ /\ Len(tokens[k]) = 1
                             /\ ~IsWordChar(tokens[k][1])

\* C23 witness: a text of two words, each followed by a punctuation mark,
\* with a space after the first mark.
C23_Witness ==
    /\ pc = "tokens"
    /\ text = Example3Text
    /\ Returned = <<Annyeonghaseyo, <<".">>, Mwohae, <<"?">> >>

\* C24: for a non-Mixed dominant register the score is the clamp to [0,100]
\* of 50, plus 30 if rank(dominant) >= rank(expected), plus 10 if exactly
\* one rank below, minus 10 if more than one rank below; plus 15 if the
\* largest main-register ratio is > 0.8, minus 10 if it is < 0.5; minus
\* min(5 * error_count, 20); plus 5 if the honorific ratio is > 0.
C24_ScoreFormula ==
    (pc = "enhanced_score" /\ Get(args).dominant # "mixed") =>
        LET ratio == BreakdownOfCounts(Get(args).counts)
            below == Rank(Get(args).expected) - Rank(Get(args).dominant)
            largest == CHOOSE r \in {ratio[l] : l \in MainLevels} :
                           \A l \in MainLevels : ratio[l] <= r
            total == 50
                     + (IF below <= 0 THEN 30 ELSE IF below = 1 THEN 10 ELSE 0 - 10)
                     + (IF largest > 80 THEN 15 ELSE IF largest < 50 THEN 0 - 10 ELSE 0)
                     - (IF 5 * Get(args).error_count < 20
                        THEN 5 * Get(args).error_count ELSE 20)
                     + (IF ratio["honorific"] > 0 THEN 5 ELSE 0)
        IN  Returned = IF total < 0 THEN 0 ELSE IF total > 100 THEN 100 ELSE total

\* C24 witness: Informal against VeryPolite (two ranks below), no register
\* reaching half of the tokens, five errors (the penalty is capped at 20),
\* no honorific: the score is 50 - 10 - 10 - 20 = 10.
C24_Witness ==
    /\ pc = "enhanced_score"
    /\ Get(args).dominant = "informal"
    /\ Get(args).expected = "very_polite"
    /\ Get(args).error_count = 5
    /\ Get(args).counts["honorific"] = 0
    /\ \A l \in MainLevels : BreakdownOfCounts(Get(args).counts)[l] < 50
    /\ Returned = 10

\* C25: the error count analyze feeds into the score's error penalty is the
\* error_count it reports in the details, the number of tokens flagged as
\* errors: a text with k mismatched tokens is penalised by min(5k, 20).
C25_PenaltyCountsTokens ==
    pc = "enhanced" =>
        LET k == Cardinality({i \in DOMAIN Returned.word_analysis :
                                  ~Returned.word_analysis[i].is_correct})
        IN  /\ Returned.details.error_count = k
            /\ Returned.score =
                   CalculateScore(Returned.level, Get(Returned.recommended_level),
                                  Returned.level_breakdown, k)

\* C26: whenever the word-level analyze reports is_appropriate = true, no
\* token of the result has is_correct = false, and the corrections list and
\* the error summary list are both empty.
C26_AppropriateMeansNoErrors ==
    (pc = "enhanced" /\ Returned.is_appropriate) =>
        /\ \A i \in DOMAIN Returned.word_analysis : Returned.word_analysis[i].is_correct
        /\ Returned.corrections = <<>>
        /\ Returned.errors = <<>>

\* C30: after any sequence of record_error, reset_session_errors and
\* reset_weekly_errors calls, every error record of every user satisfies
\* this_session_count <= this_week_count <= total_count, and total_count is
\* the number of record_error calls made for that user and error type.
C30_CountsOrdered ==
    pc \in {"record_error", "reset_session_errors", "reset_weekly_errors"} =>
        \A user_id \in DOMAIN progress_errors :
            \A error_type \in DOMAIN progress_errors[user_id] :
                LET error == progress_errors[user_id][error_type]
                IN  /\ error.this_session_count <= error.this_week_count
                    /\ error.this_week_count <= error.total_count
                    /\ error.total_count = RecordErrorCalls(user_id, error_type)

\* C27: the message log of every chat session starts with the avatar's
\* greeting and then alternates user message, avatar reply, each reply being
\* the one generated for the user message just before it (or the fallback
\* that replaces it), under every interleaving of send_message calls.
C27_LogAlternates ==
    \A ref \in DOMAIN session_objects :
        LET session == session_objects[ref]
            log == session.messages
            avatar == AVATARS(session.avatar_id)
        IN  /\ log # <<>>
            /\ log[1].role = "assistant"
            /\ log[1].content = avatar.greeting
            /\ \A i \in 2..Len(log) :
                   IF i % 2 = 0
                   THEN log[i].role = "user"
                   ELSE /\ log[i].role = "assistant"
                        /\ log[i].content \in { GeneratedReply(log[i - 1].content),
                                                FallbackResponse(avatar.formality) }

\* session ids that were handed out and are no longer in the service
EndedSessionIds == (1..Len(session_objects)) \ DOMAIN chat_sessions

\* C28: a successful end_session(id) removes the session and leaves the
\* sessions with other ids as they are; from then on the id stays absent,
\* every send_message(id) and end_session(id) fails with "Session not found"
\* and changes neither the stores nor the calls in progress, and
\* get_session(id) returns None.
C28_EndedSessionGone ==
    [][ \A id \in SessionIds :
            /\ ( /\ id \in DOMAIN chat_sessions
                 /\ pc' \in {"end_session", "end_session_with_summary"}
                 /\ result'[1].status = "ok"
                 /\ result'[1].session_id = id )
               => /\ id \notin DOMAIN chat_sessions'
                  /\ DOMAIN chat_sessions' = DOMAIN chat_sessions \ {id}
                  /\ \A other \in DOMAIN chat_sessions' :
                         chat_sessions'[other] = chat_sessions[other]
                  /\ session_objects' = session_objects
            /\ id \in EndedSessionIds
               => /\ id \notin DOMAIN chat_sessions'
                  /\ ( pc' \in {"send_message", "end_session"}
                       /\ result'[1].session_id = id )
                     => /\ result'[1].status = "Session not found"
                        /\ UNCHANGED <<stores, calls>>
                  /\ ( pc' = "get_session" /\ result'[1].session_id = id )
                     => result'[1].session = None
      ]_vars

\* a send_message on an ended session has failed while another session,
\* which has a user message, is still in the service
C28_Witness ==
    /\ pc = "send_message"
    /\ Returned.status = "Session not found"
    /\ Returned.session_id \in EndedSessionIds
    /\ \E other \in DOMAIN chat_sessions :
           UserMessages(session_objects[chat_sessions[other]]) # <<>>

\* every user message of the session went through the personalized endpoint
AllPersonalized(ref) ==
    Len(personalized_sent[ref]) = Len(UserMessages(session_objects[ref]))

\* C29: a session whose user messages were all sent through the personalized
\* message endpoint has their analysis scores, in order, as its score list;
\* when it is ended with the personalized summary, the number of recorded
\* scores is the number of user messages and the summary's average, highest
\* and lowest scores are those of the messages sent.
C29_PersonalizedScoresRecorded ==
    /\ \A ref \in DOMAIN session_objects :
           AllPersonalized(ref) => session_objects[ref].scores = personalized_sent[ref]
    /\ ( /\ pc = "end_session_with_summary"
         /\ Returned.status = "ok"
         /\ AllPersonalized(Returned.session)
         /\ personalized_sent[Returned.session] # <<>> )
       => LET sent == personalized_sent[Returned.session]
          IN  /\ Returned.recorded_scores = Returned.total_messages
              /\ Returned.average_score[1] * Len(sent)
                     = Sum(sent) * Returned.average_score[2]
              /\ Returned.highest_score = MaxOf(sent)
              /\ Returned.lowest_score = MinOf(sent)

=============================================================================
